---- MODULE Spec2Model ----
(***************************************************************************)
(* A model of the MiniOS kernel simulation: the task scheduler             *)
(* (src/scheduler/scheduler.cpp), the memory manager and heap allocator    *)
(* (src/mm/memory_manager.cpp) and the IPC manager (src/ipc/ipc.cpp).      *)
(* Each subsystem is an object of its own; SpecSched, SpecMem, SpecHeap    *)
(* and SpecIpc each drive one of them through its public operations.       *)
(***************************************************************************)
EXTENDS Integers, Sequences, FiniteSets, TLC

(***************************************************************************)
(* Bounds of the model.                                                    *)
(***************************************************************************)
\* createTask is called at most MaxTasks times.
MaxTasks == 2
\* tick() is called at most MaxTicks times.
MaxTicks == 1
\* The time quantum in ticks (100 in kernel/types.hpp:27), scaled down: a
\* slice lasts more than one tick and expires within a few.
TIME_QUANTUM_MS == 2

(***************************************************************************)
(* kernel/types.hpp                                                        *)
(***************************************************************************)
\* 0xFFFFFFFF: the all-ones 32-bit pattern, read as a signed 32-bit integer.
INVALID_TASK_ID == -1

\* enum class TaskPriority { Idle = 0, Low, Normal, High, RealTime = 4 }
PRIO_IDLE == 0
PRIO_REALTIME == 4
TaskPriority == PRIO_IDLE..PRIO_REALTIME

\* enum class TaskState; Created and Waiting are never assigned by the scheduler.
TaskState == {"Created", "Ready", "Running", "Blocked", "Waiting", "Terminated"}

\* enum class SchedulerType
SchedulerType == {"RoundRobin", "Priority"}

PRIO_LOW == 1
PRIO_HIGH == 3

\* The priorities createTask is called with.
CreatePriorities == {PRIO_LOW, PRIO_HIGH}

\* Task ids passed to terminateTask/blockTask/unblockTask: every id that
\* createTask can return and one that it never returns.
IdArgs == 1..(MaxTasks + 1)

VARIABLES
    \* ---- Scheduler (scheduler.hpp:54-64) ----
    type_,            \* SchedulerType type_
    nextTaskId_,      \* TaskId nextTaskId_
    currentTaskId_,   \* TaskId currentTaskId_
    tasks_,           \* std::map<TaskId, unique_ptr<TCB>>: id -> TCB fields
    readyQueue_,      \* std::deque<TaskId>
    priorityQueues_,  \* std::map<TaskPriority, std::deque<TaskId>>
    tickCount_,       \* uint64_t tickCount_
    \* ---- history of the calls made on the scheduler ----
    scen              \* position in the scenario "create tasks under round-robin,
                      \* schedule(), then only yield()": <<"create", 0>>,
                      \* <<"run", yields made so far (capped)>>, or <<"off", 0>>

schedVars == <<type_, nextTaskId_, currentTaskId_, tasks_, readyQueue_,
               priorityQueues_, tickCount_, scen>>

VARIABLES
    \* ---- MemoryManager (memory_manager.hpp:65-69) ----
    frameAllocationMap_,    \* std::bitset<TOTAL_PHYSICAL_FRAMES>
    pageTables_,            \* std::map<TaskId, unique_ptr<PageTable>>: task -> entries
    totalAllocatedPages_,   \* size_t
    pageFaultCount_         \* size_t

memVars == <<frameAllocationMap_, pageTables_, totalAllocatedPages_, pageFaultCount_>>

VARIABLES
    \* ---- IPCManager (ipc.hpp:113-116) ----
    messageQueues_,         \* std::map<TaskId, unique_ptr<MessageQueue>>: task -> messages_
    nextMessageId_,         \* MessageId
    totalMessagesSent_,     \* uint64_t
    totalMessagesReceived_, \* uint64_t
    \* ---- history of the calls made on each mailbox since it was registered ----
    sentLog,                \* task -> the messages enqueued by sendMessage/sendAsync
    recvLog,                \* task -> the messages returned by receiveMessage/receiveMessageFrom
    \* ---- the sendAndWaitReply call in progress (ipc.cpp:150-170) ----
    waitCall,               \* its position (pc), arguments, msgId, return value, the
                            \* iterations of its loop made so far and the messages
                            \* they have dequeued
    \* ---- a receiveMessage/receiveMessageFrom call running in a thread of its
    \*      own (ipc.cpp:102-130) ----
    rxCall                  \* its position (pc), arguments, the iterator `it`, what
                            \* peek() returned, the mutexes it has acquired so
                            \* far, its return value

ipcVars == <<messageQueues_, nextMessageId_, totalMessagesSent_, totalMessagesReceived_,
             sentLog, recvLog, waitCall, rxCall>>

VARIABLES
    \* ---- HeapAllocator (memory_manager.hpp:99-102) ----
    heap_,                  \* std::vector<uint8_t>: word address -> 8-byte word
    freeList_,              \* BlockHeader*
    allocatedBytes_,        \* size_t
    \* ---- what the caller and the process have seen ----
    returned,               \* the non-null pointers allocate/reallocate have returned
    heapCalls,              \* the number of calls made so far
    heapFault               \* a call touched memory outside the arena or never returned

heapVars == <<heap_, freeList_, allocatedBytes_, returned, heapCalls, heapFault>>

VARIABLES
    \* ---- InterruptController (drivers/driver.hpp:58-60) ----
    handlers_,              \* std::map<InterruptNumber, InterruptDescriptor>
    interruptsEnabled_,     \* bool
    totalInterrupts_,       \* uint64_t
    \* ---- what the registered handlers have seen ----
    handlerCalls            \* interrupt number -> times its handler was invoked

irqVars == <<handlers_, interruptsEnabled_, totalInterrupts_, handlerCalls>>

VARIABLES
    \* ---- FileSystem (fs/filesystem.hpp:119-124) ----
    inodes_,                \* std::map<uint32_t, unique_ptr<INode>>: regular files of "/"
    fdTable_,               \* std::map<FileDescriptor, FileDescriptorEntry>
    nextInodeNumber_,       \* uint32_t
    nextFd_,                \* FileDescriptor
    \* ---- what the process has seen ----
    fsFault                 \* a call read outside a file's data and the process died

fsVars == <<inodes_, fdTable_, nextInodeNumber_, nextFd_, fsFault>>

VARIABLES
    \* ---- Kernel (kernel/kernel.hpp:76-79) ----
    state_,                 \* KernelState
    \* ---- what boot() has seen ----
    idleTask                \* the id createTask returned in createIdleTask (the
                            \* kernel does not keep it); 0 before boot

kernelVars == <<state_, idleTask>>

\* What the operations of one subsystem leave alone: the other subsystems.
notSchedVars == <<memVars, heapVars, ipcVars, irqVars, fsVars, kernelVars>>
notMemVars == <<schedVars, heapVars, ipcVars, irqVars, fsVars, kernelVars>>
notHeapVars == <<schedVars, memVars, ipcVars, irqVars, fsVars, kernelVars>>
notIpcVars == <<schedVars, memVars, heapVars, irqVars, fsVars, kernelVars>>
notIrqVars == <<schedVars, memVars, heapVars, ipcVars, fsVars, kernelVars>>
notFsVars == <<schedVars, memVars, heapVars, ipcVars, irqVars, kernelVars>>

(***************************************************************************)
(* Sequence helpers (std::find / deque::erase).                            *)
(***************************************************************************)
InSeq(q, x) == \E i \in 1..Len(q) : q[i] = x

\* Index of the first occurrence of x in q (std::find); 0 when absent (end()).
Find(q, x) ==
    IF InSeq(q, x)
    THEN CHOOSE i \in 1..Len(q) : q[i] = x /\ \A j \in 1..(i - 1) : q[j] # x
    ELSE 0

\* deque::erase(it) of the element at index i.
EraseAt(q, i) == SubSeq(q, 1, i - 1) \o SubSeq(q, i + 1, Len(q))

Count(q, x) == Cardinality({i \in 1..Len(q) : q[i] = x})

\* std::map::erase(key)
MapErase(f, k) == [x \in (DOMAIN f) \ {k} |-> f[x]]

\* std::map operator[]= : insert or overwrite
MapPut(f, k, v) == [x \in (DOMAIN f) \cup {k} |-> IF x = k THEN v ELSE f[x]]

MinOf(S) == CHOOSE m \in S : \A n \in S : m <= n
MaxOf(S) == CHOOSE m \in S : \A n \in S : m >= n

(***************************************************************************)
(* The scheduler object as one value, so that an operation that calls      *)
(* another (terminateTask -> schedule -> addToReadyQueue) composes.        *)
(***************************************************************************)
Sched == [type |-> type_, nextTaskId |-> nextTaskId_, cur |-> currentTaskId_,
          tasks |-> tasks_, rq |-> readyQueue_, pq |-> priorityQueues_,
          tickCount |-> tickCount_]

\* tasks_.find(id) != tasks_.end()
HasTask(s, id) == id \in DOMAIN s.tasks

\* TaskControlBlock constructor (tcb.hpp:34-50): the fields the scheduler uses.
NewTCB(priority) ==
    [state |-> "Created", priority |-> priority,
     timeSliceRemaining |-> TIME_QUANTUM_MS, cpuTimeMs |-> 0]

\* Scheduler::getCurrentTask: TRUE iff it returns a non-null TCB.
getCurrentTask(s) == s.cur # INVALID_TASK_ID /\ HasTask(s, s.cur)

\* The deque priorityQueues_ holds for priority p; none is an empty one.
QueueAt(s, p) == IF p \in DOMAIN s.pq THEN s.pq[p] ELSE <<>>

\* Scheduler::addToReadyQueue; priorityQueues_[priority] creates the deque.
addToReadyQueue(s, id) ==
    IF ~HasTask(s, id) THEN s
    ELSE IF s.type = "RoundRobin"
    THEN IF Find(s.rq, id) = 0 THEN [s EXCEPT !.rq = Append(@, id)] ELSE s
    ELSE LET p == s.tasks[id].priority
             queue == QueueAt(s, p)
         IN [s EXCEPT !.pq = MapPut(@, p, IF Find(queue, id) = 0
                                          THEN Append(queue, id) ELSE queue)]

\* A removeFromReadyQueue that removes nothing.
removeFromReadyQueue_Noop(s, id) == s

\* Scheduler::removeFromReadyQueue. Under priority the map is walked in key
\* order and the walk stops at the first queue that holds the id.
removeFromReadyQueue(s, id) ==
    IF s.type = "RoundRobin"
    THEN IF Find(s.rq, id) # 0 THEN [s EXCEPT !.rq = EraseAt(@, Find(@, id))] ELSE s
    ELSE LET holders == {p \in DOMAIN s.pq : Find(s.pq[p], id) # 0} IN
         IF holders = {} THEN s
         ELSE LET p == MinOf(holders) IN [s EXCEPT !.pq[p] = EraseAt(@, Find(@, id))]

\* A selectRoundRobin that returns the back of the queue.
selectRoundRobin_Back(s) ==
    IF s.rq = <<>> THEN INVALID_TASK_ID ELSE s.rq[Len(s.rq)]

\* Scheduler::selectRoundRobin
selectRoundRobin(s) ==
    IF s.rq = <<>> THEN INVALID_TASK_ID ELSE Head(s.rq)

\* Scheduler::selectPriority: scan RealTime down to Idle.
selectPriority(s) ==
    LET nonEmpty == {p \in TaskPriority : QueueAt(s, p) # <<>>} IN
    IF nonEmpty = {} THEN INVALID_TASK_ID ELSE Head(s.pq[MaxOf(nonEmpty)])

\* Scheduler::selectNextTask
selectNextTask(s) ==
    IF s.type = "RoundRobin" THEN selectRoundRobin(s) ELSE selectPriority(s)

\* A schedule that switches without putting the running task back to Ready.
schedule_NoDemote(s) ==
    LET nextTask == selectNextTask(s) IN
    IF nextTask = INVALID_TASK_ID THEN s
    ELSE IF nextTask = s.cur THEN s
    ELSE
      LET s2 == [s EXCEPT !.cur = nextTask,
                          !.tasks[nextTask].state = "Running",
                          !.tasks[nextTask].timeSliceRemaining = TIME_QUANTUM_MS]
      IN removeFromReadyQueue(s2, nextTask)

\* Scheduler::schedule
schedule(s) ==
    LET nextTask == selectNextTask(s) IN
    IF nextTask = INVALID_TASK_ID THEN s
    ELSE IF nextTask = s.cur THEN s
    ELSE
      LET s1 == IF getCurrentTask(s) /\ s.tasks[s.cur].state = "Running"
                THEN addToReadyQueue([s EXCEPT !.tasks[s.cur].state = "Ready"], s.cur)
                ELSE s
          s2 == [s1 EXCEPT !.cur = nextTask,
                           !.tasks[nextTask].state = "Running",
                           !.tasks[nextTask].timeSliceRemaining = TIME_QUANTUM_MS]
      IN removeFromReadyQueue(s2, nextTask)

\* A createTask that hands out the id of a terminated task again.
createTask_Reuse(s, priority) ==
    LET dead == {i \in DOMAIN s.tasks : s.tasks[i].state = "Terminated"}
        id == IF dead = {} THEN s.nextTaskId ELSE CHOOSE i \in dead : TRUE
        s1 == [s EXCEPT !.nextTaskId = IF dead = {} THEN id + 1 ELSE @,
                        !.tasks = (id :> [NewTCB(priority) EXCEPT !.state = "Ready"]) @@ @]
    IN [s |-> addToReadyQueue(s1, id), ret |-> id]

\* Scheduler::createTask; the result is [s, ret].
createTask(s, priority) ==
    LET id == s.nextTaskId
        s1 == [s EXCEPT !.nextTaskId = id + 1,
                        !.tasks = @ @@ (id :> [NewTCB(priority) EXCEPT !.state = "Ready"])]
    IN [s |-> addToReadyQueue(s1, id), ret |-> id]

\* Scheduler::terminateTask; [s, ret, sched] with sched: schedule() was called.
terminateTask(s, id) ==
    IF ~HasTask(s, id) THEN [s |-> s, ret |-> FALSE, sched |-> FALSE]
    ELSE
      LET s1 == removeFromReadyQueue([s EXCEPT !.tasks[id].state = "Terminated"], id) IN
      IF s1.cur = id
      THEN [s |-> schedule([s1 EXCEPT !.cur = INVALID_TASK_ID]), ret |-> TRUE, sched |-> TRUE]
      ELSE [s |-> s1, ret |-> TRUE, sched |-> FALSE]

\* Scheduler::blockTask
blockTask(s, id) ==
    IF ~HasTask(s, id) THEN [s |-> s, ret |-> FALSE, sched |-> FALSE]
    ELSE IF s.tasks[id].state # "Running" /\ s.tasks[id].state # "Ready"
    THEN [s |-> s, ret |-> FALSE, sched |-> FALSE]
    ELSE
      LET s1 == removeFromReadyQueue([s EXCEPT !.tasks[id].state = "Blocked"], id) IN
      IF s1.cur = id
      THEN [s |-> schedule(s1), ret |-> TRUE, sched |-> TRUE]
      ELSE [s |-> s1, ret |-> TRUE, sched |-> FALSE]

\* Scheduler::unblockTask
unblockTask(s, id) ==
    IF ~HasTask(s, id) THEN [s |-> s, ret |-> FALSE]
    ELSE IF s.tasks[id].state # "Blocked" THEN [s |-> s, ret |-> FALSE]
    ELSE [s |-> addToReadyQueue([s EXCEPT !.tasks[id].state = "Ready"], id), ret |-> TRUE]

\* A tick that preempts one tick before the time-slice is used up.
tick_Early(s) ==
    LET s0 == [s EXCEPT !.tickCount = @ + 1] IN
    IF ~getCurrentTask(s0) THEN [s |-> schedule(s0), sched |-> TRUE]
    ELSE
      LET c  == s0.cur
          s1 == IF s0.tasks[c].timeSliceRemaining > 0
                THEN [s0 EXCEPT !.tasks[c].timeSliceRemaining = @ - 1,
                                !.tasks[c].cpuTimeMs = @ + 1]
                ELSE s0
      IN IF s1.tasks[c].timeSliceRemaining <= 1
         THEN [s |-> schedule(s1), sched |-> TRUE]
         ELSE [s |-> s1, sched |-> FALSE]

\* Scheduler::tick; [s, sched]
tick(s) ==
    LET s0 == [s EXCEPT !.tickCount = @ + 1] IN
    IF ~getCurrentTask(s0) THEN [s |-> schedule(s0), sched |-> TRUE]
    ELSE
      LET c  == s0.cur
          s1 == IF s0.tasks[c].timeSliceRemaining > 0
                THEN [s0 EXCEPT !.tasks[c].timeSliceRemaining = @ - 1,
                                !.tasks[c].cpuTimeMs = @ + 1]
                ELSE s0
      IN IF s1.tasks[c].timeSliceRemaining = 0
         THEN [s |-> schedule(s1), sched |-> TRUE]
         ELSE [s |-> s1, sched |-> FALSE]

\* Scheduler::yield; [s, sched]
yield(s) ==
    IF getCurrentTask(s)
    THEN [s |-> schedule([s EXCEPT !.tasks[s.cur].timeSliceRemaining = 0]), sched |-> TRUE]
    ELSE [s |-> s, sched |-> FALSE]

\* Scheduler::setSchedulerType
setSchedulerType(s, type) ==
    IF s.type # type THEN [s EXCEPT !.type = type] ELSE s

(***************************************************************************)
(* Scheduler actions: one per public operation.                            *)
(***************************************************************************)
SetSched(s) ==
    /\ type_' = s.type
    /\ nextTaskId_' = s.nextTaskId
    /\ currentTaskId_' = s.cur
    /\ tasks_' = s.tasks
    /\ readyQueue_' = s.rq
    /\ priorityQueues_' = s.pq
    /\ tickCount_' = s.tickCount

ScenCreate == <<"create", 0>>
ScenOff == <<"off", 0>>
ScenRun(yields) == <<"run", yields>>

\* Scheduler::Scheduler(type)
SchedInit ==
    /\ type_ \in SchedulerType
    /\ nextTaskId_ = 1
    /\ currentTaskId_ = INVALID_TASK_ID
    /\ tasks_ = <<>>
    /\ readyQueue_ = <<>>
    /\ priorityQueues_ = <<>>
    /\ tickCount_ = 0
    /\ scen = IF type_ = "RoundRobin" THEN ScenCreate ELSE ScenOff

DoCreateTask(priority) ==
    /\ nextTaskId_ <= MaxTasks
    /\ SetSched(createTask(Sched, priority).s)
    /\ UNCHANGED notSchedVars
    /\ scen' = IF scen = ScenCreate THEN ScenCreate ELSE ScenOff

DoTerminateTask(id) ==
    /\ SetSched(terminateTask(Sched, id).s)
    /\ UNCHANGED notSchedVars
    /\ scen' = ScenOff

DoBlockTask(id) ==
    /\ SetSched(blockTask(Sched, id).s)
    /\ UNCHANGED notSchedVars
    /\ scen' = ScenOff

DoUnblockTask(id) ==
    /\ SetSched(unblockTask(Sched, id).s)
    /\ UNCHANGED notSchedVars
    /\ scen' = ScenOff

DoSchedule ==
    /\ SetSched(schedule(Sched))
    /\ UNCHANGED notSchedVars
    /\ scen' = IF scen = ScenCreate /\ nextTaskId_ > 1 THEN ScenRun(0) ELSE ScenOff

DoTick ==
    /\ tickCount_ < MaxTicks
    /\ SetSched(tick(Sched).s)
    /\ UNCHANGED notSchedVars
    /\ scen' = ScenOff

DoYield ==
    /\ SetSched(yield(Sched).s)
    /\ UNCHANGED notSchedVars
    /\ scen' = IF scen[1] = "run"
               THEN ScenRun(IF scen[2] < MaxTasks THEN scen[2] + 1 ELSE scen[2])
               ELSE ScenOff

DoSetSchedulerType(type) ==
    /\ SetSched(setSchedulerType(Sched, type))
    /\ UNCHANGED notSchedVars
    /\ scen' = IF type = type_ THEN scen ELSE ScenOff

\* The operations of a scheduler that keeps the discipline it was built with.
SchedNext ==
    \/ \E priority \in CreatePriorities : DoCreateTask(priority)
    \/ \E id \in IdArgs : DoTerminateTask(id)
    \/ \E id \in IdArgs : DoBlockTask(id)
    \/ \E id \in IdArgs : DoUnblockTask(id)
    \/ DoSchedule
    \/ DoTick
    \/ DoYield

\* All public operations, setSchedulerType included.
SchedSwitchNext ==
    \/ SchedNext
    \/ \E type \in SchedulerType : DoSetSchedulerType(type)

\* tick() called for ever. The two counters that only report are kept
\* small: tickCount_ starts over at 1 after MaxTicks + 1, and cpuTimeMs
\* stays at MaxTicks once it has reached it.
DoTickForever ==
    LET s == tick(Sched).s IN
    /\ SetSched([s EXCEPT
           !.tickCount = IF @ > MaxTicks + 1 THEN 1 ELSE @,
           !.tasks = [id \in DOMAIN s.tasks |->
                         [s.tasks[id] EXCEPT !.cpuTimeMs = MinOf({@, MaxTicks})]]])
    /\ UNCHANGED notSchedVars
    /\ scen' = ScenOff

\* Any calls other than tick() first; from the first tick() on, only tick().
TickingNext ==
    \/ tickCount_ = 0 /\ \E priority \in CreatePriorities : DoCreateTask(priority)
    \/ tickCount_ = 0 /\ \E id \in IdArgs : DoTerminateTask(id)
    \/ tickCount_ = 0 /\ \E id \in IdArgs : DoBlockTask(id)
    \/ tickCount_ = 0 /\ \E id \in IdArgs : DoUnblockTask(id)
    \/ tickCount_ = 0 /\ DoSchedule
    \/ tickCount_ = 0 /\ DoYield
    \/ DoTickForever

(***************************************************************************)
(* Memory manager (mm/memory_manager.hpp, src/mm/memory_manager.cpp).      *)
(***************************************************************************)
\* Number of physical frames (1024 in memory_manager.hpp:12), scaled down so
\* that the frame pool can be exhausted.
TOTAL_PHYSICAL_FRAMES == 3
\* handlePageFault is called at most MaxFaults times.
MaxFaults == 2
\* totalAllocatedPages_ is kept at or below MaxAllocs.
MaxAllocs == 4

PAGE_SIZE == 4096

\* enum class MemoryProtection (kernel/types.hpp)
PROT_READ == 1
PROT_READWRITE == 3

\* Arguments of the memory-manager calls.
MemTaskIds == {1, 2}
PageNumbers == {0, 5}
Protections == {PROT_READ, PROT_READWRITE}
Frames == 0..(TOTAL_PHYSICAL_FRAMES - 1)

Mem == [frames |-> frameAllocationMap_, pt |-> pageTables_,
        total |-> totalAllocatedPages_, faults |-> pageFaultCount_]

\* An allocateFrame that hands out frame 0 again when no frame is free.
allocateFrame_Reuse(m) ==
    LET free == {i \in Frames : ~m.frames[i]} IN
    IF free = {} THEN [m |-> m, ok |-> TRUE, frame |-> 0]
    ELSE LET i == MinOf(free) IN
         [m |-> [m EXCEPT !.frames[i] = TRUE], ok |-> TRUE, frame |-> i]

\* MemoryManager::allocateFrame: first clear bit in ascending order; [m, ok, frame]
allocateFrame(m) ==
    LET free == {i \in Frames : ~m.frames[i]} IN
    IF free = {} THEN [m |-> m, ok |-> FALSE, frame |-> 0]
    ELSE LET i == MinOf(free) IN
         [m |-> [m EXCEPT !.frames[i] = TRUE], ok |-> TRUE, frame |-> i]

\* A freeFrame that leaves the bit set.
freeFrame_Noop(m, frame) == m

\* MemoryManager::freeFrame
freeFrame(m, frame) ==
    IF frame >= TOTAL_PHYSICAL_FRAMES THEN m
    ELSE [m EXCEPT !.frames[frame] = FALSE]

\* A createAddressSpace that replaces an existing page table by an empty one.
createAddressSpace_Overwrite(m, taskId) ==
    [m |-> [m EXCEPT !.pt = MapPut(@, taskId, <<>>)], ret |-> taskId \notin DOMAIN m.pt]

\* MemoryManager::createAddressSpace; [m, ret]
createAddressSpace(m, taskId) ==
    IF taskId \in DOMAIN m.pt THEN [m |-> m, ret |-> FALSE]
    ELSE [m |-> [m EXCEPT !.pt = MapPut(@, taskId, <<>>)], ret |-> TRUE]

\* The loop of destroyAddressSpace: freeFrame for every present entry.
RECURSIVE FreeFramesOf(_, _, _)
FreeFramesOf(m, entries, pages) ==
    IF pages = {} THEN m
    ELSE LET pageNum == MinOf(pages)
             m1 == IF entries[pageNum].present
                   THEN freeFrame(m, entries[pageNum].frameNumber) ELSE m
         IN FreeFramesOf(m1, entries, pages \ {pageNum})

\* A destroyAddressSpace that removes the page table without freeing frames.
destroyAddressSpace_KeepFrames(m, taskId) ==
    IF taskId \notin DOMAIN m.pt THEN [m |-> m, ret |-> FALSE]
    ELSE [m |-> [m EXCEPT !.pt = MapErase(@, taskId)], ret |-> TRUE]

\* MemoryManager::destroyAddressSpace; [m, ret]
destroyAddressSpace(m, taskId) ==
    IF taskId \notin DOMAIN m.pt THEN [m |-> m, ret |-> FALSE]
    ELSE LET m1 == FreeFramesOf(m, m.pt[taskId], DOMAIN m.pt[taskId])
         IN [m |-> [m1 EXCEPT !.pt = MapErase(@, taskId)], ret |-> TRUE]

\* MemoryManager::allocatePage; [m, ok, addr] with addr the offset of the
\* frame in physicalMemory_.
allocatePage(m, taskId, virtualPage, protection) ==
    IF taskId \notin DOMAIN m.pt THEN [m |-> m, ok |-> FALSE, addr |-> 0]
    ELSE IF virtualPage \in DOMAIN m.pt[taskId] /\ m.pt[taskId][virtualPage].present
    THEN [m |-> m, ok |-> FALSE, addr |-> 0]
    ELSE
      LET f == allocateFrame(m) IN
      IF ~f.ok THEN [m |-> m, ok |-> FALSE, addr |-> 0]
      ELSE
        LET entry == [frameNumber |-> f.frame, present |-> TRUE, dirty |-> FALSE,
                      accessed |-> FALSE, protection |-> protection]
            m1 == [f.m EXCEPT !.pt[taskId] = MapPut(@, virtualPage, entry),
                              !.total = @ + 1]
        IN [m |-> m1, ok |-> TRUE, addr |-> f.frame * PAGE_SIZE]

\* A freePage that releases the frame but keeps the page-table entry.
freePage_KeepEntry(m, taskId, virtualPage) ==
    IF taskId \notin DOMAIN m.pt THEN [m |-> m, ret |-> FALSE]
    ELSE IF virtualPage \notin DOMAIN m.pt[taskId] \/ ~m.pt[taskId][virtualPage].present
    THEN [m |-> m, ret |-> FALSE]
    ELSE [m |-> [freeFrame(m, m.pt[taskId][virtualPage].frameNumber)
                    EXCEPT !.total = @ - 1],
          ret |-> TRUE]

\* MemoryManager::freePage; [m, ret]
freePage(m, taskId, virtualPage) ==
    IF taskId \notin DOMAIN m.pt THEN [m |-> m, ret |-> FALSE]
    ELSE IF virtualPage \notin DOMAIN m.pt[taskId] \/ ~m.pt[taskId][virtualPage].present
    THEN [m |-> m, ret |-> FALSE]
    ELSE
      LET m1 == freeFrame(m, m.pt[taskId][virtualPage].frameNumber) IN
      [m |-> [m1 EXCEPT !.pt[taskId] = MapErase(@, virtualPage), !.total = @ - 1],
       ret |-> TRUE]

\* A translateAddress that answers frame 0 for every present page.
translateAddress_Frame0(m, taskId, virtualPage) ==
    IF taskId \notin DOMAIN m.pt THEN [m |-> m, ok |-> FALSE, frame |-> 0]
    ELSE IF virtualPage \notin DOMAIN m.pt[taskId] \/ ~m.pt[taskId][virtualPage].present
    THEN [m |-> m, ok |-> FALSE, frame |-> 0]
    ELSE [m |-> [m EXCEPT !.pt[taskId][virtualPage].accessed = TRUE], ok |-> TRUE,
          frame |-> 0]

\* MemoryManager::translateAddress; [m, ok, frame]
translateAddress(m, taskId, virtualPage) ==
    IF taskId \notin DOMAIN m.pt THEN [m |-> m, ok |-> FALSE, frame |-> 0]
    ELSE IF virtualPage \notin DOMAIN m.pt[taskId] \/ ~m.pt[taskId][virtualPage].present
    THEN [m |-> m, ok |-> FALSE, frame |-> 0]
    ELSE [m |-> [m EXCEPT !.pt[taskId][virtualPage].accessed = TRUE], ok |-> TRUE,
          frame |-> m.pt[taskId][virtualPage].frameNumber]

\* MemoryManager::handlePageFault; [m, ret]
handlePageFault(m, taskId, virtualPage) ==
    LET r == allocatePage([m EXCEPT !.faults = @ + 1], taskId, virtualPage, PROT_READWRITE)
    IN [m |-> r.m, ret |-> r.ok]

\* MemoryManager::setProtection; [m, ret]
setProtection(m, taskId, virtualPage, protection) ==
    IF taskId \notin DOMAIN m.pt THEN [m |-> m, ret |-> FALSE]
    ELSE IF virtualPage \notin DOMAIN m.pt[taskId] THEN [m |-> m, ret |-> FALSE]
    ELSE [m |-> [m EXCEPT !.pt[taskId][virtualPage].protection = protection], ret |-> TRUE]

\* MemoryManager::getUsedFrameCount / getFreeFrameCount
getUsedFrameCount(m) == Cardinality({i \in Frames : m.frames[i]})
getFreeFrameCount(m) == TOTAL_PHYSICAL_FRAMES - getUsedFrameCount(m)

SetMem(m) ==
    /\ frameAllocationMap_' = m.frames
    /\ pageTables_' = m.pt
    /\ totalAllocatedPages_' = m.total
    /\ pageFaultCount_' = m.faults

\* MemoryManager::MemoryManager()
MemInit ==
    /\ frameAllocationMap_ = [i \in Frames |-> FALSE]
    /\ pageTables_ = <<>>
    /\ totalAllocatedPages_ = 0
    /\ pageFaultCount_ = 0

DoCreateAddressSpace(t) ==
    /\ SetMem(createAddressSpace(Mem, t).m)
    /\ UNCHANGED notMemVars

DoDestroyAddressSpace(t) ==
    /\ SetMem(destroyAddressSpace(Mem, t).m)
    /\ UNCHANGED notMemVars

DoAllocatePage(t, p, prot) ==
    /\ totalAllocatedPages_ < MaxAllocs
    /\ SetMem(allocatePage(Mem, t, p, prot).m)
    /\ UNCHANGED notMemVars

DoFreePage(t, p) ==
    /\ SetMem(freePage(Mem, t, p).m)
    /\ UNCHANGED notMemVars

DoTranslateAddress(t, p) ==
    /\ SetMem(translateAddress(Mem, t, p).m)
    /\ UNCHANGED notMemVars

DoHandlePageFault(t, p) ==
    /\ pageFaultCount_ < MaxFaults
    /\ totalAllocatedPages_ < MaxAllocs
    /\ SetMem(handlePageFault(Mem, t, p).m)
    /\ UNCHANGED notMemVars

DoSetProtection(t, p, prot) ==
    /\ SetMem(setProtection(Mem, t, p, prot).m)
    /\ UNCHANGED notMemVars

MemNext ==
    \/ \E t \in MemTaskIds : DoCreateAddressSpace(t)
    \/ \E t \in MemTaskIds : DoDestroyAddressSpace(t)
    \/ \E t \in MemTaskIds, p \in PageNumbers, prot \in Protections : DoAllocatePage(t, p, prot)
    \/ \E t \in MemTaskIds, p \in PageNumbers : DoFreePage(t, p)
    \/ \E t \in MemTaskIds, p \in PageNumbers : DoTranslateAddress(t, p)
    \/ \E t \in MemTaskIds, p \in PageNumbers : DoHandlePageFault(t, p)
    \/ \E t \in MemTaskIds, p \in PageNumbers, prot \in Protections : DoSetProtection(t, p, prot)

(***************************************************************************)
(* Heap allocator (mm/memory_manager.hpp, src/mm/memory_manager.cpp).      *)
(* The block headers live inside the arena, so the arena is modelled as    *)
(* memory: an array of 8-byte words, read and written through pointers.    *)
(***************************************************************************)
\* The heapSize the allocator is constructed with, in bytes.
HeapSize == 160
\* allocate, free and reallocate are called at most MaxHeapCalls times in all.
MaxHeapCalls == 6
\* Width of size_t in bits (64 on the target), scaled down; the arena ends
\* below 2^SizeBits.
SizeBits == 8

SizeMod == 2 ^ SizeBits
\* A bool is one byte: the low byte of its little-endian word.
ByteMod == 256

\* sizeof(BlockHeader) and the offsets of its fields (LP64 layout).
HeaderSize == 32
OffSize == 0
OffIsFree == 8
OffNext == 16
OffPrev == 24

\* nullptr
NULL == 0
\* heap_.data(): the address of the first byte of the arena.
HeapBase == 8

\* Sizes passed to allocate and reallocate: zero, a size that is rounded up,
\* a multiple of 8 and the largest size_t.
AllocSizes == {0, 1, 16, SizeMod - 1}

\* The addresses of the words that lie inside the arena.
WordAddrs == {HeapBase + 8 * k : k \in 0..((HeapSize \div 8) - 1)}

\* A BlockHeader* that can be dereferenced: all four fields inside the arena.
IsHeader(p) == p \in WordAddrs /\ (p + OffPrev) \in WordAddrs

Heap == [mem |-> heap_, freeList |-> freeList_, allocatedBytes |-> allocatedBytes_,
         fault |-> heapFault]

Fault(h) == [h EXCEPT !.fault = TRUE]

\* Field reads of a BlockHeader at p.
BlockSize(h, p) == h.mem[p + OffSize]
BlockIsFree(h, p) == (h.mem[p + OffIsFree] % ByteMod) # 0
BlockNext(h, p) == h.mem[p + OffNext]
BlockPrev(h, p) == h.mem[p + OffPrev]

\* Field writes; a bool write changes one byte of its word.
SetSize(h, p, v) == [h EXCEPT !.mem[p + OffSize] = v % SizeMod]
SetIsFree(h, p, b) ==
    [h EXCEPT !.mem[p + OffIsFree] = (@ - (@ % ByteMod)) + (IF b THEN 1 ELSE 0)]
SetNext(h, p, v) == [h EXCEPT !.mem[p + OffNext] = v]
SetPrev(h, p, v) == [h EXCEPT !.mem[p + OffPrev] = v]

\* The first half of HeapAllocator::coalesce: absorb the next block if free.
coalesceNext(h, block) ==
    LET n == BlockNext(h, block) IN
    IF n = NULL THEN h
    ELSE IF ~IsHeader(n) THEN Fault(h)
    ELSE IF ~BlockIsFree(h, n) THEN h
    ELSE
      LET h1 == SetSize(h, block, BlockSize(h, block) + HeaderSize + BlockSize(h, n))
          n1 == BlockNext(h1, block)
      IN
      IF ~IsHeader(n1) THEN Fault(h1)
      ELSE
        LET h2 == SetNext(h1, block, BlockNext(h1, n1))
            n2 == BlockNext(h2, block)
        IN
        IF n2 = NULL THEN h2
        ELSE IF ~IsHeader(n2) THEN Fault(h2)
        ELSE SetPrev(h2, n2, block)

\* The second half of HeapAllocator::coalesce: be absorbed by the previous
\* block if free.
coalescePrev(h, block) ==
    LET p == BlockPrev(h, block) IN
    IF p = NULL THEN h
    ELSE IF ~IsHeader(p) THEN Fault(h)
    ELSE IF ~BlockIsFree(h, p) THEN h
    ELSE
      LET h1 == SetSize(h, p, BlockSize(h, p) + HeaderSize + BlockSize(h, block))
          p1 == BlockPrev(h1, block)
      IN
      IF ~IsHeader(p1) THEN Fault(h1)
      ELSE
        LET h2 == SetNext(h1, p1, BlockNext(h1, block))
            n2 == BlockNext(h2, block)
        IN
        IF n2 = NULL THEN h2
        ELSE IF ~IsHeader(n2) THEN Fault(h2)
        ELSE SetPrev(h2, n2, BlockPrev(h2, block))

\* HeapAllocator::coalesce
coalesce(h, block) ==
    LET h1 == coalesceNext(h, block) IN
    IF h1.fault THEN h1 ELSE coalescePrev(h1, block)

\* The loop of findFreeBlock from `current`. A walk longer than the number of
\* words in the arena is in a cycle of blocks none of which fits: the loop
\* never ends. [block, fault]
RECURSIVE FindFrom(_, _, _, _)
FindFrom(h, current, size, fuel) ==
    IF current = NULL THEN [block |-> NULL, fault |-> FALSE]
    ELSE IF ~IsHeader(current) \/ fuel = 0 THEN [block |-> NULL, fault |-> TRUE]
    ELSE IF BlockIsFree(h, current) /\ BlockSize(h, current) >= size
    THEN [block |-> current, fault |-> FALSE]
    ELSE FindFrom(h, BlockNext(h, current), size, fuel - 1)

\* HeapAllocator::findFreeBlock; [block, fault]
findFreeBlock(h, size) == FindFrom(h, h.freeList, size, Cardinality(WordAddrs))

\* HeapAllocator::splitBlock
splitBlock(h, block, size) ==
    LET newBlock == block + HeaderSize + size IN
    IF ~IsHeader(newBlock) THEN Fault(h)
    ELSE
      LET h1 == SetSize(h, newBlock, BlockSize(h, block) - size - HeaderSize)
          h2 == SetIsFree(h1, newBlock, TRUE)
          h3 == SetNext(h2, newBlock, BlockNext(h2, block))
          h4 == SetPrev(h3, newBlock, block)
          n == BlockNext(h4, block)
      IN
      IF n # NULL /\ ~IsHeader(n) THEN Fault(h4)
      ELSE
        LET h5 == IF n # NULL THEN SetPrev(h4, n, newBlock) ELSE h4
            h6 == SetSize(h5, block, size)
        IN SetNext(h6, block, newBlock)

\* size = (size + 7) & ~7 on size_t
RoundUp8(size) ==
    LET s == (size + 7) % SizeMod IN s - (s % 8)

\* HeapAllocator::allocate; [h, ret]
allocate(h, size) ==
    IF size = 0 THEN [h |-> h, ret |-> NULL]
    ELSE
      LET sz == RoundUp8(size)
          f == findFreeBlock(h, sz)
          block == f.block
      IN
      IF f.fault THEN [h |-> Fault(h), ret |-> NULL]
      ELSE IF block = NULL THEN [h |-> h, ret |-> NULL]
      ELSE
        LET h1 == IF BlockSize(h, block) > (sz + HeaderSize + 8) % SizeMod
                  THEN splitBlock(h, block, sz) ELSE h
        IN
        IF h1.fault THEN [h |-> h1, ret |-> NULL]
        ELSE
          LET h2 == SetIsFree(h1, block, FALSE)
              h3 == [h2 EXCEPT !.allocatedBytes = (@ + BlockSize(h2, block)) % SizeMod]
          IN [h |-> h3, ret |-> block + HeaderSize]

\* HeapAllocator::free
free(h, ptr) ==
    IF ptr = NULL THEN h
    ELSE
      LET block == ptr - HeaderSize IN
      IF ~IsHeader(block) THEN Fault(h)
      ELSE IF BlockIsFree(h, block) THEN h
      ELSE
        LET h1 == SetIsFree(h, block, TRUE)
            h2 == [h1 EXCEPT !.allocatedBytes = (@ - BlockSize(h1, block)) % SizeMod]
        IN coalesce(h2, block)

\* The bytes of the arena.
InArena(a, n) == a >= HeapBase /\ a + n <= HeapBase + HeapSize

\* std::memcpy(dst, src, n) between 8-aligned addresses of the arena: whole
\* words, then the low n % 8 bytes of the last word (every word holds a value
\* below 2^16, so two bytes or more carry the whole value). Bytes behind the
\* last whole word of the arena hold no header field and are not kept.
memcpy(h, dst, src, n) ==
    IF n = 0 THEN h
    ELSE IF ~InArena(dst, n) \/ ~InArena(src, n) THEN Fault(h)
    ELSE IF dst < src + n /\ src < dst + n THEN Fault(h)
    ELSE
      LET q == n \div 8
          r == n % 8
          word(a) ==
            LET k == (a - dst) \div 8
                s == src + 8 * k
            IN IF a < dst \/ k > q \/ (k = q /\ r = 0) \/ s \notin WordAddrs THEN h.mem[a]
               ELSE IF k < q \/ r >= 2 THEN h.mem[s]
               ELSE (h.mem[a] - (h.mem[a] % ByteMod)) + (h.mem[s] % ByteMod)
      IN [h EXCEPT !.mem = [a \in WordAddrs |-> word(a)]]

\* HeapAllocator::reallocate; [h, ret]
reallocate(h, ptr, newSize) ==
    IF ptr = NULL THEN allocate(h, newSize)
    ELSE IF newSize = 0 THEN [h |-> free(h, ptr), ret |-> NULL]
    ELSE
      LET block == ptr - HeaderSize IN
      IF ~IsHeader(block) THEN [h |-> Fault(h), ret |-> NULL]
      ELSE IF BlockSize(h, block) >= newSize THEN [h |-> h, ret |-> ptr]
      ELSE
        LET a == allocate(h, newSize) IN
        IF a.ret = NULL THEN a
        ELSE
          LET h1 == memcpy(a.h, a.ret, ptr, BlockSize(a.h, block)) IN
          IF h1.fault THEN [h |-> h1, ret |-> NULL]
          ELSE [h |-> free(h1, ptr), ret |-> a.ret]

\* HeapAllocator::getUsedMemory
getUsedMemory(h) == h.allocatedBytes

SetHeap(h) ==
    /\ heap_' = h.mem
    /\ freeList_' = h.freeList
    /\ allocatedBytes_' = h.allocatedBytes
    /\ heapFault' = h.fault

\* HeapAllocator::HeapAllocator(heapSize): a zero-filled vector with one free
\* block written at its start.
HeapInit ==
    /\ heap_ = [a \in WordAddrs |->
                  IF a = HeapBase + OffSize THEN HeapSize - HeaderSize
                  ELSE IF a = HeapBase + OffIsFree THEN 1
                  ELSE 0]
    /\ freeList_ = HeapBase
    /\ allocatedBytes_ = 0
    /\ returned = {}
    /\ heapCalls = 0
    /\ heapFault = FALSE

\* The pointers free and reallocate are called with: nullptr and every
\* pointer allocate or reallocate has returned so far.
PtrArgs == returned \cup {NULL}

DoAllocate(size) ==
    LET r == allocate(Heap, size) IN
    /\ ~heapFault
    /\ heapCalls < MaxHeapCalls
    /\ heapCalls' = heapCalls + 1
    /\ SetHeap(r.h)
    /\ returned' = IF r.ret # NULL THEN returned \cup {r.ret} ELSE returned
    /\ UNCHANGED notHeapVars

DoFree(ptr) ==
    /\ ~heapFault
    /\ heapCalls < MaxHeapCalls
    /\ heapCalls' = heapCalls + 1
    /\ SetHeap(free(Heap, ptr))
    /\ UNCHANGED returned
    /\ UNCHANGED notHeapVars

DoReallocate(ptr, newSize) ==
    LET r == reallocate(Heap, ptr, newSize) IN
    /\ ~heapFault
    /\ heapCalls < MaxHeapCalls
    /\ heapCalls' = heapCalls + 1
    /\ SetHeap(r.h)
    /\ returned' = IF r.ret # NULL THEN returned \cup {r.ret} ELSE returned
    /\ UNCHANGED notHeapVars

HeapNext ==
    \/ \E size \in AllocSizes : DoAllocate(size)
    \/ \E ptr \in PtrArgs : DoFree(ptr)
    \/ \E ptr \in PtrArgs, newSize \in AllocSizes : DoReallocate(ptr, newSize)

(***************************************************************************)
(* IPC manager (ipc/ipc.hpp, src/ipc/ipc.cpp).                             *)
(***************************************************************************)
\* sendMessage/sendAsync succeed at most MaxMsgs times.
MaxMsgs == 3

\* A sendAndWaitReply call makes at most MaxPolls iterations of its loop
\* before its deadline.
MaxPolls == 2

\* Mailbox owners and senders.
IpcTaskIds == {1, 2}
\* enum class MessageType: the values the calls are made with.
MsgTypes == {"Data", "Response"}

Ipc == [mq |-> messageQueues_, nextId |-> nextMessageId_,
        sent |-> totalMessagesSent_, received |-> totalMessagesReceived_]

\* struct Message, as built by its constructor (isBlocking = false).
NewMessage(msgId, sender, receiver, type) ==
    [id |-> msgId, senderId |-> sender, receiverId |-> receiver, type |-> type,
     isBlocking |-> FALSE]

\* An enqueue that puts the message in front.
enqueue_Front(q, msg) == <<msg>> \o q

\* MessageQueue::enqueue on messages_
enqueue(q, msg) == Append(q, msg)

\* A dequeue that takes the newest message.
dequeue_Back(q) ==
    IF q = <<>> THEN [q |-> q, ok |-> FALSE, msg |-> <<>>]
    ELSE [q |-> SubSeq(q, 1, Len(q) - 1), ok |-> TRUE, msg |-> q[Len(q)]]

\* MessageQueue::dequeue on messages_; [q, ok, msg]
dequeue(q) ==
    IF q = <<>> THEN [q |-> q, ok |-> FALSE, msg |-> <<>>]
    ELSE [q |-> Tail(q), ok |-> TRUE, msg |-> Head(q)]

\* MessageQueue::peek; [ok, msg]
peek(q) ==
    IF q = <<>> THEN [ok |-> FALSE, msg |-> <<>>]
    ELSE [ok |-> TRUE, msg |-> Head(q)]

\* IPCManager::registerTask; [i, ret]
registerTask(i, taskId) ==
    IF taskId \in DOMAIN i.mq THEN [i |-> i, ret |-> FALSE]
    ELSE [i |-> [i EXCEPT !.mq = MapPut(@, taskId, <<>>)], ret |-> TRUE]

\* An unregisterTask that empties the mailbox but keeps it.
unregisterTask_Clear(i, taskId) ==
    IF taskId \notin DOMAIN i.mq THEN [i |-> i, ret |-> FALSE]
    ELSE [i |-> [i EXCEPT !.mq[taskId] = <<>>], ret |-> TRUE]

\* IPCManager::unregisterTask; [i, ret]
unregisterTask(i, taskId) ==
    IF taskId \notin DOMAIN i.mq THEN [i |-> i, ret |-> FALSE]
    ELSE [i |-> [i EXCEPT !.mq = MapErase(@, taskId)], ret |-> TRUE]

\* IPCManager::sendMessage; [i, ret, msg] with ret the message id or 0
sendMessage(i, sender, receiver, type, blocking) ==
    IF receiver \notin DOMAIN i.mq THEN [i |-> i, ret |-> 0, msg |-> <<>>]
    ELSE
      LET id == i.nextId
          msg == [NewMessage(id, sender, receiver, type) EXCEPT !.isBlocking = blocking]
      IN [i |-> [i EXCEPT !.nextId = @ + 1,
                          !.mq[receiver] = enqueue(@, msg),
                          !.sent = @ + 1],
          ret |-> id, msg |-> msg]

\* IPCManager::sendAsync
sendAsync(i, sender, receiver, type) == sendMessage(i, sender, receiver, type, FALSE)

\* IPCManager::receiveMessage; [i, ok, msg]
receiveMessage(i, receiver) ==
    IF receiver \notin DOMAIN i.mq THEN [i |-> i, ok |-> FALSE, msg |-> <<>>]
    ELSE
      LET d == dequeue(i.mq[receiver]) IN
      IF d.ok
      THEN [i |-> [i EXCEPT !.mq[receiver] = d.q, !.received = @ + 1],
            ok |-> TRUE, msg |-> d.msg]
      ELSE [i |-> i, ok |-> FALSE, msg |-> <<>>]

\* A receiveMessageFrom that takes the head off the mailbox also when its
\* sender does not match.
receiveMessageFrom_Skip(i, receiver, sender) ==
    IF receiver \notin DOMAIN i.mq THEN [i |-> i, ok |-> FALSE, msg |-> <<>>]
    ELSE
      LET pk == peek(i.mq[receiver])
          d  == dequeue(i.mq[receiver])
      IN IF pk.ok /\ pk.msg.senderId = sender
         THEN [i |-> [i EXCEPT !.mq[receiver] = d.q], ok |-> d.ok, msg |-> d.msg]
         ELSE [i |-> [i EXCEPT !.mq[receiver] = d.q], ok |-> FALSE, msg |-> <<>>]

\* IPCManager::receiveMessageFrom, called with no other thread in between
\* peek and dequeue; [i, ok, msg]
receiveMessageFrom(i, receiver, sender) ==
    IF receiver \notin DOMAIN i.mq THEN [i |-> i, ok |-> FALSE, msg |-> <<>>]
    ELSE
      LET pk == peek(i.mq[receiver]) IN
      IF pk.ok /\ pk.msg.senderId = sender
      THEN LET d == dequeue(i.mq[receiver]) IN
           [i |-> [i EXCEPT !.mq[receiver] = d.q], ok |-> d.ok, msg |-> d.msg]
      ELSE [i |-> i, ok |-> FALSE, msg |-> <<>>]

\* std::nullopt
None == <<>>

\* IPCManager::sendAndWaitReply up to its loop: the Request is sent with
\* blocking = true; [i, ret, msg]
sendAndWaitReplySend(i, sender, receiver) ==
    sendMessage(i, sender, receiver, "Request", TRUE)

\* One iteration of the loop of sendAndWaitReply: receiveMessageFrom with the
\* roles swapped; the call returns the reply if it is a Response, and drops
\* what it dequeued otherwise; [i, ok, msg, ret]
sendAndWaitReplyPoll(i, sender, receiver) ==
    LET reply == receiveMessageFrom(i, sender, receiver) IN
    [i |-> reply.i, ok |-> reply.ok, msg |-> reply.msg,
     ret |-> reply.ok /\ reply.msg.type = "Response"]

\* No sendAndWaitReply call has been made.
NoWaitCall ==
    [pc |-> "idle", sender |-> 0, receiver |-> 0, msgId |-> 0, ret |-> None,
     polls |-> 0, dequeued |-> <<>>]

\* No receive call is running in a thread of its own.
NoRxCall ==
    [pc |-> "idle", op |-> "none", receiver |-> 0, sender |-> 0, it |-> "none",
     peeked |-> None, acquired |-> <<>>, ret |-> None, fault |-> FALSE]

SetIpc(i) ==
    /\ messageQueues_' = i.mq
    /\ nextMessageId_' = i.nextId
    /\ totalMessagesSent_' = i.sent
    /\ totalMessagesReceived_' = i.received

\* IPCManager::IPCManager()
IpcInit ==
    /\ messageQueues_ = <<>>
    /\ nextMessageId_ = 1
    /\ totalMessagesSent_ = 0
    /\ totalMessagesReceived_ = 0
    /\ sentLog = [t \in IpcTaskIds |-> <<>>]
    /\ recvLog = [t \in IpcTaskIds |-> <<>>]
    /\ waitCall = NoWaitCall
    /\ rxCall = NoRxCall

\* The logs of a mailbox start empty whenever the mailbox is created or destroyed.
DoRegisterTask(taskId) ==
    LET r == registerTask(Ipc, taskId) IN
    /\ SetIpc(r.i)
    /\ sentLog' = IF r.ret THEN [sentLog EXCEPT ![taskId] = <<>>] ELSE sentLog
    /\ recvLog' = IF r.ret THEN [recvLog EXCEPT ![taskId] = <<>>] ELSE recvLog
    /\ UNCHANGED <<waitCall, rxCall>>
    /\ UNCHANGED notIpcVars

\* erase() destroys the MessageQueue: an iterator another thread obtained from
\* find() on this task and still uses is left dangling.
DoUnregisterTask(taskId) ==
    LET r == unregisterTask(Ipc, taskId) IN
    /\ SetIpc(r.i)
    /\ sentLog' = IF r.ret THEN [sentLog EXCEPT ![taskId] = <<>>] ELSE sentLog
    /\ recvLog' = IF r.ret THEN [recvLog EXCEPT ![taskId] = <<>>] ELSE recvLog
    /\ rxCall' = IF r.ret /\ rxCall.receiver = taskId /\ rxCall.it = "valid"
                     /\ rxCall.pc \in {"found", "peeked"}
                  THEN [rxCall EXCEPT !.it = "dangling"]
                  ELSE rxCall
    /\ UNCHANGED waitCall
    /\ UNCHANGED notIpcVars

\* sendMessage with its default argument blocking = false.
DoSendMessage(sender, receiver, type) ==
    LET r == sendMessage(Ipc, sender, receiver, type, FALSE) IN
    /\ nextMessageId_ <= MaxMsgs
    /\ SetIpc(r.i)
    /\ sentLog' = IF r.ret # 0 THEN [sentLog EXCEPT ![receiver] = Append(@, r.msg)] ELSE sentLog
    /\ UNCHANGED <<recvLog, waitCall, rxCall>>
    /\ UNCHANGED notIpcVars

DoSendAsync(sender, receiver, type) ==
    LET r == sendAsync(Ipc, sender, receiver, type) IN
    /\ nextMessageId_ <= MaxMsgs
    /\ SetIpc(r.i)
    /\ sentLog' = IF r.ret # 0 THEN [sentLog EXCEPT ![receiver] = Append(@, r.msg)] ELSE sentLog
    /\ UNCHANGED <<recvLog, waitCall, rxCall>>
    /\ UNCHANGED notIpcVars

DoReceiveMessage(receiver) ==
    LET r == receiveMessage(Ipc, receiver) IN
    /\ SetIpc(r.i)
    /\ recvLog' = IF r.ok THEN [recvLog EXCEPT ![receiver] = Append(@, r.msg)] ELSE recvLog
    /\ UNCHANGED <<sentLog, waitCall, rxCall>>
    /\ UNCHANGED notIpcVars

DoReceiveMessageFrom(receiver, sender) ==
    LET r == receiveMessageFrom(Ipc, receiver, sender) IN
    /\ SetIpc(r.i)
    /\ recvLog' = IF r.ok THEN [recvLog EXCEPT ![receiver] = Append(@, r.msg)] ELSE recvLog
    /\ UNCHANGED <<sentLog, waitCall, rxCall>>
    /\ UNCHANGED notIpcVars

\* sendAndWaitReply, entry: the Request is sent; the call returns None at once
\* if the receiver has no mailbox, and enters its loop otherwise.
DoSendAndWaitReply(sender, receiver) ==
    LET r == sendAndWaitReplySend(Ipc, sender, receiver) IN
    /\ waitCall.pc = "idle"
    /\ nextMessageId_ <= MaxMsgs
    /\ SetIpc(r.i)
    /\ sentLog' = IF r.ret # 0 THEN [sentLog EXCEPT ![receiver] = Append(@, r.msg)] ELSE sentLog
    /\ waitCall' = [pc |-> IF r.ret = 0 THEN "done" ELSE "loop",
                    sender |-> sender, receiver |-> receiver, msgId |-> r.ret,
                    ret |-> None, polls |-> 0, dequeued |-> <<>>]
    /\ UNCHANGED <<recvLog, rxCall>>
    /\ UNCHANGED notIpcVars

\* sendAndWaitReply, one iteration of the loop made before the deadline.
DoWaitReplyPoll ==
    LET r == sendAndWaitReplyPoll(Ipc, waitCall.sender, waitCall.receiver) IN
    /\ waitCall.pc = "loop"
    /\ waitCall.polls < MaxPolls
    /\ SetIpc(r.i)
    /\ waitCall' = [waitCall EXCEPT
                       !.pc = IF r.ret THEN "done" ELSE "loop",
                       !.polls = @ + 1,
                       !.ret = IF r.ret THEN r.msg ELSE None,
                       !.dequeued = IF r.ok THEN Append(@, r.msg) ELSE @]
    /\ UNCHANGED <<sentLog, recvLog, rxCall>>
    /\ UNCHANGED notIpcVars

\* sendAndWaitReply, the loop condition read after the deadline: return None.
DoWaitReplyTimeout ==
    /\ waitCall.pc = "loop"
    /\ waitCall' = [waitCall EXCEPT !.pc = "done", !.ret = None]
    /\ UNCHANGED <<messageQueues_, nextMessageId_, totalMessagesSent_,
                   totalMessagesReceived_, sentLog, recvLog, rxCall>>
    /\ UNCHANGED notIpcVars

\* The receive calls of ipc.cpp:102-130 run by a thread of its own, one step
\* per access to shared data, so that the calls of other threads come in
\* between. receiveMessage and receiveMessageFrom take no lock of their own:
\* the only mutex they acquire is the mailbox's, inside peek() and dequeue().
RxOps == {"receiveMessage", "receiveMessageFrom"}

\* Entry and messageQueues_.find(receiver), made without the manager's mutex
\* (ipc.cpp:103-106, 119-122): the call returns nullopt when the receiver has
\* no mailbox and keeps the iterator otherwise.
DoRxFind(op, receiver, sender) ==
    LET found == receiver \in DOMAIN messageQueues_ IN
    /\ rxCall.pc = "idle"
    /\ rxCall' = [NoRxCall EXCEPT
                     !.pc = IF found THEN "found" ELSE "done",
                     !.op = op, !.receiver = receiver,
                     !.sender = IF op = "receiveMessageFrom" THEN sender ELSE 0,
                     !.it = IF found THEN "valid" ELSE "end"]
    /\ UNCHANGED <<messageQueues_, nextMessageId_, totalMessagesSent_,
                   totalMessagesReceived_, sentLog, recvLog, waitCall>>
    /\ UNCHANGED notIpcVars

\* receiveMessageFrom: it->second->peek() under the mailbox mutex and the
\* test of the sender (ipc.cpp:124-125).
DoRxPeek ==
    LET pk == peek(messageQueues_[rxCall.receiver]) IN
    /\ rxCall.pc = "found"
    /\ rxCall.op = "receiveMessageFrom"
    /\ rxCall.it = "valid"
    /\ rxCall' = IF pk.ok /\ pk.msg.senderId = rxCall.sender
                  THEN [rxCall EXCEPT !.pc = "peeked", !.peeked = pk.msg,
                                      !.acquired = Append(@, "mailbox")]
                  ELSE [rxCall EXCEPT !.pc = "done", !.ret = None,
                                      !.acquired = Append(@, "mailbox")]
    /\ UNCHANGED <<messageQueues_, nextMessageId_, totalMessagesSent_,
                   totalMessagesReceived_, sentLog, recvLog, waitCall>>
    /\ UNCHANGED notIpcVars

\* it->second->dequeue() under the mailbox mutex and the return: line 108 of
\* receiveMessage (which counts the message, lines 109-113) and line 126 of
\* receiveMessageFrom (which returns whatever dequeue() hands out).
DoRxDequeue ==
    LET d == dequeue(messageQueues_[rxCall.receiver]) IN
    /\ \/ rxCall.pc = "found" /\ rxCall.op = "receiveMessage"
       \/ rxCall.pc = "peeked"
    /\ rxCall.it = "valid"
    /\ messageQueues_' = [messageQueues_ EXCEPT ![rxCall.receiver] = d.q]
    /\ totalMessagesReceived_' =
           IF d.ok /\ rxCall.op = "receiveMessage"
           THEN totalMessagesReceived_ + 1 ELSE totalMessagesReceived_
    /\ recvLog' = IF d.ok THEN [recvLog EXCEPT ![rxCall.receiver] = Append(@, d.msg)]
                   ELSE recvLog
    /\ rxCall' = [rxCall EXCEPT !.pc = "done",
                                 !.ret = IF d.ok THEN d.msg ELSE None,
                                 !.acquired = Append(@, "mailbox")]
    /\ UNCHANGED <<nextMessageId_, totalMessagesSent_, sentLog, waitCall>>
    /\ UNCHANGED notIpcVars

\* peek() or dequeue() through an iterator whose MessageQueue unregisterTask
\* has destroyed meanwhile: the behaviour is undefined. The call crashes or
\* hangs on the destroyed mutex (fault), or it reads freed memory and returns
\* nullopt or the message it had peeked.
DoRxUseAfterFree ==
    /\ rxCall.pc \in {"found", "peeked"}
    /\ rxCall.it = "dangling"
    /\ \E crash \in BOOLEAN, r \in {None, rxCall.peeked} :
          rxCall' = [rxCall EXCEPT !.pc = "done", !.fault = crash,
                                   !.ret = IF crash THEN None ELSE r]
    /\ UNCHANGED <<messageQueues_, nextMessageId_, totalMessagesSent_,
                   totalMessagesReceived_, sentLog, recvLog, waitCall>>
    /\ UNCHANGED notIpcVars

IpcNext ==
    \/ \E t \in IpcTaskIds : DoRegisterTask(t)
    \/ \E t \in IpcTaskIds : DoUnregisterTask(t)
    \/ \E s \in IpcTaskIds, r \in IpcTaskIds, type \in MsgTypes : DoSendMessage(s, r, type)
    \/ \E s \in IpcTaskIds, r \in IpcTaskIds, type \in MsgTypes : DoSendAsync(s, r, type)
    \/ \E r \in IpcTaskIds : DoReceiveMessage(r)
    \/ \E r \in IpcTaskIds, s \in IpcTaskIds : DoReceiveMessageFrom(r, s)

\* The IPC operations together with one sendAndWaitReply call, whose loop
\* iterations interleave with the calls of the other tasks.
IpcWaitNext ==
    \/ IpcNext
    \/ \E s \in IpcTaskIds, r \in IpcTaskIds : DoSendAndWaitReply(s, r)
    \/ DoWaitReplyPoll
    \/ DoWaitReplyTimeout

\* The IPC operations of the other threads together with one receive call
\* that runs step by step in a thread of its own.
IpcThreadsNext ==
    \/ IpcNext
    \/ \E op \in RxOps, r \in IpcTaskIds, s \in IpcTaskIds : DoRxFind(op, r, s)
    \/ DoRxPeek
    \/ DoRxDequeue
    \/ DoRxUseAfterFree

(***************************************************************************)
(* Interrupt controller (drivers/driver.hpp, src/drivers/driver.cpp) with  *)
(* the handlers the kernel registers (src/kernel/kernel.cpp).              *)
(***************************************************************************)
\* triggerInterrupt is called until MaxInterrupts interrupts were delivered.
MaxInterrupts == 2

\* enum class InterruptType { Timer = 0, Keyboard = 1, ... }
IRQ_TIMER == 0
IRQ_KEYBOARD == 1
\* The interrupt numbers the calls are made with.
IrqNumbers == {IRQ_TIMER, IRQ_KEYBOARD}

Irq == [handlers |-> handlers_, enabled |-> interruptsEnabled_, total |-> totalInterrupts_]

\* The handler Kernel::setupInterruptHandlers registers for an interrupt
\* number: the timer's calls handleTimerInterrupt, the others only log.
KernelHandler(n) == IF n = IRQ_TIMER THEN "handleTimerInterrupt" ELSE "log"

\* InterruptController::registerHandler; [q, ret]
registerHandler(q, n, handler) ==
    IF n \in DOMAIN q.handlers THEN [q |-> q, ret |-> FALSE]
    ELSE [q |-> [q EXCEPT !.handlers =
                    MapPut(@, n, [handler |-> handler, triggerCount |-> 0, enabled |-> TRUE])],
          ret |-> TRUE]

\* InterruptController::unregisterHandler; [q, ret]
unregisterHandler(q, n) ==
    IF n \notin DOMAIN q.handlers THEN [q |-> q, ret |-> FALSE]
    ELSE [q |-> [q EXCEPT !.handlers = MapErase(@, n)], ret |-> TRUE]

\* A triggerInterrupt that does not look at the entry's enabled flag.
triggerInterrupt_IgnoreMask(q, n) ==
    IF ~q.enabled THEN [q |-> q, invoked |-> <<>>]
    ELSE IF n \notin DOMAIN q.handlers THEN [q |-> q, invoked |-> <<>>]
    ELSE [q |-> [q EXCEPT !.total = @ + 1, !.handlers[n].triggerCount = @ + 1],
          invoked |-> <<q.handlers[n].handler>>]

\* InterruptController::triggerInterrupt; [q, invoked] with invoked the
\* handlers it called, in order
triggerInterrupt(q, n) ==
    IF ~q.enabled THEN [q |-> q, invoked |-> <<>>]
    ELSE IF n \notin DOMAIN q.handlers THEN [q |-> q, invoked |-> <<>>]
    ELSE IF ~q.handlers[n].enabled THEN [q |-> q, invoked |-> <<>>]
    ELSE [q |-> [q EXCEPT !.total = @ + 1, !.handlers[n].triggerCount = @ + 1],
          invoked |-> <<q.handlers[n].handler>>]

\* InterruptController::enableInterrupt / disableInterrupt
enableInterrupt(q, n) ==
    IF n \in DOMAIN q.handlers THEN [q EXCEPT !.handlers[n].enabled = TRUE] ELSE q
disableInterrupt(q, n) ==
    IF n \in DOMAIN q.handlers THEN [q EXCEPT !.handlers[n].enabled = FALSE] ELSE q

\* InterruptController::enableInterrupts / disableInterrupts
enableInterrupts(q) == [q EXCEPT !.enabled = TRUE]
disableInterrupts(q) == [q EXCEPT !.enabled = FALSE]

\* Kernel::handleTimerInterrupt
handleTimerInterrupt(s) == tick(s).s

\* The effect on the scheduler of the handlers a triggerInterrupt call invoked.
RECURSIVE RunHandlers(_, _)
RunHandlers(s, invoked) ==
    IF invoked = <<>> THEN s
    ELSE RunHandlers(IF Head(invoked) = "handleTimerInterrupt"
                     THEN handleTimerInterrupt(s) ELSE s,
                     Tail(invoked))

SetIrq(q) ==
    /\ handlers_' = q.handlers
    /\ interruptsEnabled_' = q.enabled
    /\ totalInterrupts_' = q.total

\* InterruptController::InterruptController()
IrqInit ==
    /\ handlers_ = <<>>
    /\ interruptsEnabled_ = FALSE
    /\ totalInterrupts_ = 0
    /\ handlerCalls = [n \in IrqNumbers |-> 0]

DoRegisterHandler(n) ==
    /\ SetIrq(registerHandler(Irq, n, KernelHandler(n)).q)
    /\ UNCHANGED handlerCalls
    /\ UNCHANGED notIrqVars

DoUnregisterHandler(n) ==
    /\ SetIrq(unregisterHandler(Irq, n).q)
    /\ UNCHANGED handlerCalls
    /\ UNCHANGED notIrqVars

\* triggerInterrupt with the handler it invokes run to completion inside the
\* call, as the controller calls it synchronously.
DoTriggerInterrupt(n) ==
    LET r == triggerInterrupt(Irq, n) IN
    /\ totalInterrupts_ < MaxInterrupts
    /\ SetIrq(r.q)
    /\ handlerCalls' = [handlerCalls EXCEPT ![n] = @ + Len(r.invoked)]
    /\ SetSched(RunHandlers(Sched, r.invoked))
    /\ scen' = IF RunHandlers(Sched, r.invoked) = Sched THEN scen ELSE ScenOff
    /\ UNCHANGED <<memVars, heapVars, ipcVars, fsVars, kernelVars>>

DoEnableInterrupt(n) ==
    /\ SetIrq(enableInterrupt(Irq, n))
    /\ UNCHANGED handlerCalls
    /\ UNCHANGED notIrqVars

DoDisableInterrupt(n) ==
    /\ SetIrq(disableInterrupt(Irq, n))
    /\ UNCHANGED handlerCalls
    /\ UNCHANGED notIrqVars

DoEnableInterrupts ==
    /\ SetIrq(enableInterrupts(Irq))
    /\ UNCHANGED handlerCalls
    /\ UNCHANGED notIrqVars

DoDisableInterrupts ==
    /\ SetIrq(disableInterrupts(Irq))
    /\ UNCHANGED handlerCalls
    /\ UNCHANGED notIrqVars

\* The interrupt controller of a kernel whose scheduler holds tasks.
IrqNext ==
    \/ \E n \in IrqNumbers : DoRegisterHandler(n)
    \/ \E n \in IrqNumbers : DoUnregisterHandler(n)
    \/ \E n \in IrqNumbers : DoTriggerInterrupt(n)
    \/ \E n \in IrqNumbers : DoEnableInterrupt(n)
    \/ \E n \in IrqNumbers : DoDisableInterrupt(n)
    \/ DoEnableInterrupts
    \/ DoDisableInterrupts
    \/ \E priority \in CreatePriorities : DoCreateTask(priority)

(***************************************************************************)
(* File system (fs/filesystem.hpp, src/fs/filesystem.cpp): the regular     *)
(* files of the root directory and the descriptor table. Directories       *)
(* other than "/" are not created.                                         *)
(***************************************************************************)
\* open() is called until MaxFds descriptors were handed out.
MaxFds == 2
\* write() is called while the file stays within MaxFileSize bytes, and
\* read() while the position is at most one byte beyond that.
MaxFileSize == 2
\* createFile succeeds at most MaxFiles times.
MaxFiles == 2

\* enum class OpenMode
MODE_READ == 1
MODE_WRITE == 2
MODE_READWRITE == 3
MODE_APPEND == 4
MODE_CREATE == 8
MODE_TRUNCATE == 16
INVALID_FD == -1
ROOT_INODE == 1

\* The arguments of the calls: file names under "/", open modes (Read,
\* Write, ReadWrite, Write|Append, Write|Create, Write|Truncate), byte
\* counts, seek positions and descriptors.
FileNames == {"a"}
OpenModes == {MODE_READ, MODE_WRITE, MODE_READWRITE, MODE_WRITE + MODE_APPEND,
              MODE_WRITE + MODE_CREATE, MODE_WRITE + MODE_TRUNCATE}
Counts == {0, 1, 2}
SeekPositions == {0, 1, MaxFileSize + 1}
FdArgs == 0..MaxFds

\* static_cast<int>(a) & static_cast<int>(b) on non-negative ints
RECURSIVE BitAnd(_, _)
BitAnd(a, b) ==
    IF a = 0 \/ b = 0 THEN 0
    ELSE (a % 2) * (b % 2) + 2 * BitAnd(a \div 2, b \div 2)

\* hasFlag(mode, flag)
hasFlag(mode, flag) == BitAnd(mode, flag) # 0

Fs == [inodes |-> inodes_, fds |-> fdTable_, nextInode |-> nextInodeNumber_,
       nextFd |-> nextFd_]

\* FileSystem::findINode for a file name under "/": its inode number, 0 if none.
findINode(f, name) ==
    LET S == {i \in DOMAIN f.inodes : f.inodes[i].name = name} IN
    IF S = {} THEN 0 ELSE CHOOSE i \in S : TRUE

\* FileSystem::createFile; [f, ret]
createFile(f, name) ==
    IF findINode(f, name) # 0 THEN [f |-> f, ret |-> FALSE]
    ELSE [f |-> [f EXCEPT !.inodes = MapPut(@, f.nextInode,
                                            [name |-> name, size |-> 0, data |-> <<>>]),
                          !.nextInode = @ + 1],
          ret |-> TRUE]

\* FileSystem::deleteFile; [f, ret]
deleteFile(f, name) ==
    IF findINode(f, name) = 0 THEN [f |-> f, ret |-> FALSE]
    ELSE [f |-> [f EXCEPT !.inodes = MapErase(@, findINode(f, name))], ret |-> TRUE]

\* FileSystem::open; [f, ret]
open(f, name, mode) ==
    LET f1 == IF hasFlag(mode, MODE_CREATE) /\ findINode(f, name) = 0
              THEN createFile(f, name).f ELSE f
        file == findINode(f1, name)
    IN
    IF file = 0 THEN [f |-> f1, ret |-> INVALID_FD]
    ELSE
      LET f2 == IF hasFlag(mode, MODE_TRUNCATE)
                THEN [f1 EXCEPT !.inodes[file].data = <<>>, !.inodes[file].size = 0]
                ELSE f1
          fd == f2.nextFd
          pos == IF hasFlag(mode, MODE_APPEND) THEN f2.inodes[file].size ELSE 0
      IN [f |-> [f2 EXCEPT !.nextFd = @ + 1,
                           !.fds = MapPut(@, fd, [inodeNumber |-> file, position |-> pos,
                                                  mode |-> mode, isOpen |-> TRUE])],
          ret |-> fd]

\* FileSystem::close; [f, ret]
close(f, fd) ==
    IF fd \notin DOMAIN f.fds THEN [f |-> f, ret |-> FALSE]
    ELSE [f |-> [f EXCEPT !.fds = MapErase(@, fd)], ret |-> TRUE]

\* FileSystem::read; [f, ret, bytes, oob] with bytes what memcpy copied from
\* inside the file's data and oob whether it read beyond data
read(f, fd, count) ==
    IF fd \notin DOMAIN f.fds \/ ~f.fds[fd].isOpen
    THEN [f |-> f, ret |-> -1, bytes |-> <<>>, oob |-> FALSE]
    ELSE
      LET e == f.fds[fd] IN
      IF ~hasFlag(e.mode, MODE_READ) /\ ~hasFlag(e.mode, MODE_READWRITE)
      THEN [f |-> f, ret |-> -1, bytes |-> <<>>, oob |-> FALSE]
      ELSE IF e.inodeNumber \notin DOMAIN f.inodes
      THEN [f |-> f, ret |-> -1, bytes |-> <<>>, oob |-> FALSE]
      ELSE
        LET file == f.inodes[e.inodeNumber]
            available == (file.size - e.position) % SizeMod
            toRead == MinOf({count, available})
            last == MinOf({e.position + toRead, Len(file.data)})
        IN
        [f |-> IF toRead > 0 THEN [f EXCEPT !.fds[fd].position = (@ + toRead) % SizeMod]
               ELSE f,
         ret |-> toRead,
         bytes |-> SubSeq(file.data, e.position + 1, last),
         oob |-> toRead > 0 /\ e.position + toRead > Len(file.data)]

\* FileSystem::write of count bytes of value byte; [f, ret]
write(f, fd, count, byte) ==
    IF fd \notin DOMAIN f.fds \/ ~f.fds[fd].isOpen THEN [f |-> f, ret |-> -1]
    ELSE
      LET e == f.fds[fd] IN
      IF ~hasFlag(e.mode, MODE_WRITE) /\ ~hasFlag(e.mode, MODE_READWRITE)
      THEN [f |-> f, ret |-> -1]
      ELSE IF e.inodeNumber \notin DOMAIN f.inodes THEN [f |-> f, ret |-> -1]
      ELSE
        LET file == f.inodes[e.inodeNumber]
            newSize == (e.position + count) % SizeMod
            len == MaxOf({Len(file.data), newSize})
            data == [k \in 1..len |->
                        IF k > e.position /\ k <= e.position + count THEN byte
                        ELSE IF k <= Len(file.data) THEN file.data[k]
                        ELSE 0]
        IN
        [f |-> [f EXCEPT !.inodes[e.inodeNumber].data = data,
                         !.inodes[e.inodeNumber].size = MaxOf({file.size, newSize}),
                         !.fds[fd].position = newSize],
         ret |-> count]

\* FileSystem::seek; [f, ret]
seek(f, fd, position) ==
    IF fd \notin DOMAIN f.fds THEN [f |-> f, ret |-> FALSE]
    ELSE [f |-> [f EXCEPT !.fds[fd].position = position], ret |-> TRUE]

SetFs(f) ==
    /\ inodes_' = f.inodes
    /\ fdTable_' = f.fds
    /\ nextInodeNumber_' = f.nextInode
    /\ nextFd_' = f.nextFd

\* FileSystem::FileSystem(): only the root directory exists.
FsInit ==
    /\ inodes_ = <<>>
    /\ fdTable_ = <<>>
    /\ nextInodeNumber_ = ROOT_INODE + 1
    /\ nextFd_ = 0
    /\ fsFault = FALSE

DoCreateFile(name) ==
    /\ ~fsFault
    /\ nextInodeNumber_ <= ROOT_INODE + MaxFiles
    /\ SetFs(createFile(Fs, name).f)
    /\ UNCHANGED fsFault
    /\ UNCHANGED notFsVars

DoDeleteFile(name) ==
    /\ ~fsFault
    /\ SetFs(deleteFile(Fs, name).f)
    /\ UNCHANGED fsFault
    /\ UNCHANGED notFsVars

DoOpen(name, mode) ==
    /\ ~fsFault
    /\ nextFd_ < MaxFds
    /\ hasFlag(mode, MODE_CREATE) => nextInodeNumber_ <= ROOT_INODE + MaxFiles
    /\ SetFs(open(Fs, name, mode).f)
    /\ UNCHANGED fsFault
    /\ UNCHANGED notFsVars

DoClose(fd) ==
    /\ ~fsFault
    /\ SetFs(close(Fs, fd).f)
    /\ UNCHANGED fsFault
    /\ UNCHANGED notFsVars

\* A read beyond the file's data is undefined: the process dies or goes on
\* with whatever the memory held.
DoRead(fd, count) ==
    LET r == read(Fs, fd, count) IN
    /\ ~fsFault
    /\ fd \in DOMAIN fdTable_ => fdTable_[fd].position <= MaxFileSize + 1
    /\ SetFs(r.f)
    /\ fsFault' \in (IF r.oob THEN {TRUE, FALSE} ELSE {FALSE})
    /\ UNCHANGED notFsVars

DoWrite(fd, count) ==
    /\ ~fsFault
    /\ fd \in DOMAIN fdTable_ => fdTable_[fd].position + count <= MaxFileSize
    /\ SetFs(write(Fs, fd, count, 1).f)
    /\ UNCHANGED fsFault
    /\ UNCHANGED notFsVars

DoSeek(fd, position) ==
    /\ ~fsFault
    /\ SetFs(seek(Fs, fd, position).f)
    /\ UNCHANGED fsFault
    /\ UNCHANGED notFsVars

FsNext ==
    \/ \E name \in FileNames : DoCreateFile(name)
    \/ \E name \in FileNames : DoDeleteFile(name)
    \/ \E name \in FileNames, mode \in OpenModes : DoOpen(name, mode)
    \/ \E fd \in FdArgs : DoClose(fd)
    \/ \E fd \in FdArgs, count \in Counts : DoRead(fd, count)
    \/ \E fd \in FdArgs, count \in Counts : DoWrite(fd, count)
    \/ \E fd \in FdArgs, position \in SeekPositions : DoSeek(fd, position)

(***************************************************************************)
(* Kernel and system calls (kernel/kernel.hpp, src/kernel/kernel.cpp).     *)
(***************************************************************************)
\* InterruptType::SystemCall and InterruptType::PageFault
IRQ_SYSCALL == 128
IRQ_PAGEFAULT == 14

\* enum class SystemCallId: the calls that act for the current task on the
\* scheduler, the memory manager and the IPC manager.
SyscallIds == {"Exit", "Yield", "GetPid", "Allocate", "Free", "Send"}

\* arg1 of a system call: a page number for Allocate and Free, the receiver
\* for Send, unused otherwise.
SyscallArgs(id) ==
    IF id \in {"Allocate", "Free"} THEN PageNumbers
    ELSE IF id = "Send" THEN {0, 1}
    ELSE {0}

\* The task ids main.cpp sets up an address space and a mailbox for.
SetupTaskIds == {1}

\* Kernel::Kernel()
KernelCtor ==
    /\ state_ = "Uninitialized"
    /\ idleTask = 0

\* Kernel::setupInterruptHandlers on the controller q
setupInterruptHandlers(q) ==
    LET q1 == registerHandler(q, IRQ_TIMER, KernelHandler(IRQ_TIMER)).q
        q2 == registerHandler(q1, IRQ_KEYBOARD, KernelHandler(IRQ_KEYBOARD)).q
        q3 == registerHandler(q2, IRQ_SYSCALL, KernelHandler(IRQ_SYSCALL)).q
    IN registerHandler(q3, IRQ_PAGEFAULT, KernelHandler(IRQ_PAGEFAULT)).q

\* Kernel::createIdleTask on the scheduler s, the IPC manager i and the
\* memory manager m: the idle task is created, and the mailbox and the
\* address space are created under the literal id 0; [s, i, m, id] with id
\* the value createTask returned.
createIdleTask(s, i, m) ==
    LET c == createTask(s, PRIO_IDLE) IN
    [s |-> c.s, i |-> registerTask(i, 0).i, m |-> createAddressSpace(m, 0).m,
     id |-> c.ret]

\* SystemCall::dispatch for the ids of SyscallIds; [s, m, i, ret]
dispatch(s, m, i, id, arg1) ==
    LET none == [s |-> s, m |-> m, i |-> i, ret |-> -1]
        task == getCurrentTask(s)
    IN
    IF id = "Exit"
    THEN [none EXCEPT !.s = IF task THEN terminateTask(s, s.cur).s ELSE s, !.ret = 0]
    ELSE IF id = "Yield"
    THEN [none EXCEPT !.s = yield(s).s, !.ret = 0]
    ELSE IF id = "GetPid"
    THEN [none EXCEPT !.ret = IF task THEN s.cur ELSE -1]
    ELSE IF ~task THEN none
    ELSE IF id = "Allocate"
    THEN LET r == allocatePage(m, s.cur, arg1, PROT_READWRITE) IN
         [none EXCEPT !.m = r.m, !.ret = IF r.ok THEN r.addr ELSE -1]
    ELSE IF id = "Free"
    THEN LET r == freePage(m, s.cur, arg1) IN
         [none EXCEPT !.m = r.m, !.ret = IF r.ret THEN 0 ELSE -1]
    ELSE LET r == sendMessage(i, s.cur, arg1, "Data", FALSE) IN
         [none EXCEPT !.i = r.i, !.ret = r.ret]

\* Kernel::boot: the subsystems are constructed (they are in their
\* constructed state), the handlers are registered and the idle task is
\* created.
DoBoot ==
    LET r == createIdleTask(Sched, Ipc, Mem) IN
    /\ state_ = "Uninitialized"
    /\ SetIrq(setupInterruptHandlers(Irq))
    /\ SetSched(r.s)
    /\ SetIpc(r.i)
    /\ SetMem(r.m)
    /\ state_' = "Running"
    /\ idleTask' = r.id
    /\ scen' = ScenOff
    /\ UNCHANGED <<handlerCalls, sentLog, recvLog, waitCall, rxCall, heapVars, fsVars>>

\* Kernel::run up to its main loop: interrupts are enabled.
DoRun ==
    /\ state_ = "Running"
    /\ SetIrq(enableInterrupts(Irq))
    /\ UNCHANGED handlerCalls
    /\ UNCHANGED notIrqVars

\* One system call made by the running code.
DoSyscall(id, arg1) ==
    LET r == dispatch(Sched, Mem, Ipc, id, arg1) IN
    /\ state_ = "Running"
    /\ id = "Send" => nextMessageId_ <= MaxMsgs
    /\ SetSched(r.s)
    /\ SetMem(r.m)
    /\ SetIpc(r.i)
    /\ scen' = ScenOff
    /\ sentLog' = IF r.i # Ipc /\ arg1 \in DOMAIN sentLog
                   THEN [sentLog EXCEPT ![arg1] = Append(@, r.i.mq[arg1][Len(r.i.mq[arg1])])]
                   ELSE sentLog
    /\ UNCHANGED <<recvLog, waitCall, rxCall, heapVars, irqVars, fsVars, kernelVars>>

\* After boot: run() with the timer interrupts of its main loop
\* (kernel.cpp:233), the system calls, and the calls main.cpp makes on the
\* subsystems to set up further tasks.
KernelNext ==
    \/ DoBoot
    \/ DoRun
    \/ state_ = "Running" /\ interruptsEnabled_ /\ DoTriggerInterrupt(IRQ_TIMER)
    \/ \E id \in SyscallIds : \E arg1 \in SyscallArgs(id) : DoSyscall(id, arg1)
    \/ state_ = "Running" /\ \E priority \in CreatePriorities : DoCreateTask(priority)
    \/ state_ = "Running" /\ \E t \in SetupTaskIds : DoCreateAddressSpace(t)
    \/ state_ = "Running" /\ \E t \in SetupTaskIds : DoRegisterTask(t)

(***************************************************************************)
(* Specifications: one per subsystem object.                               *)
(***************************************************************************)
vars == <<schedVars, memVars, heapVars, ipcVars, irqVars, fsVars, kernelVars>>

Init == SchedInit /\ MemInit /\ HeapInit /\ IpcInit /\ IrqInit /\ FsInit /\ KernelCtor

\* The kernel constructs its scheduler as round-robin (kernel.cpp:142).
KernelInit == Init /\ type_ = "RoundRobin"

\* The scheduler, keeping the discipline it was constructed with.
SpecSched == Init /\ [][SchedNext]_vars

\* The scheduler with setSchedulerType.
SpecSchedSwitch == Init /\ [][SchedSwitchNext]_vars

\* The round-robin scheduler driven by the timer: tick() keeps being called.
SpecSchedTicking == KernelInit /\ [][TickingNext]_vars /\ WF_vars(DoTickForever)

\* The memory manager.
SpecMem == KernelInit /\ [][MemNext]_vars

\* The heap allocator.
SpecHeap == KernelInit /\ [][HeapNext]_vars

\* The IPC manager, one call at a time.
SpecIpc == KernelInit /\ [][IpcNext]_vars

\* The IPC manager with a task inside sendAndWaitReply.
SpecIpcWait == KernelInit /\ [][IpcWaitNext]_vars

\* The IPC manager with a receive call running in a thread of its own.
SpecIpcThreads == KernelInit /\ [][IpcThreadsNext]_vars

\* The interrupt controller with the kernel's handlers.
SpecIrq == KernelInit /\ [][IrqNext]_vars

\* The kernel from boot on.
SpecKernel == KernelInit /\ [][KernelNext]_vars

\* The file system.
SpecFs == KernelInit /\ [][FsNext]_vars

(***************************************************************************)
(* Scheduler properties.                                                   *)
(***************************************************************************)
SchedState == <<type_, nextTaskId_, currentTaskId_, tasks_, readyQueue_,
                priorityQueues_, tickCount_>>

ReadyIds(s) == {id \in DOMAIN s.tasks : s.tasks[id].state = "Ready"}

\* The ready structure of the discipline in force that task id belongs to.
ReadyStructure(s, id) ==
    IF s.type = "RoundRobin" THEN s.rq ELSE QueueAt(s, s.tasks[id].priority)

\* Every id held by any ready structure, with repetitions.
QueuedCount(s, id) ==
    LET RECURSIVE Sum(_)
        Sum(P) == IF P = {} THEN 0
                  ELSE LET p == CHOOSE x \in P : TRUE
                       IN Count(QueueAt(s, p), id) + Sum(P \ {p})
    IN Count(s.rq, id) + Sum(TaskPriority)

QueuedIds(s) ==
    {s.rq[i] : i \in 1..Len(s.rq)}
      \cup UNION {{s.pq[p][i] : i \in 1..Len(s.pq[p])} : p \in DOMAIN s.pq}

\* schedule() ran during the step: called directly or from tick, yield,
\* blockTask or terminateTask.
ScheduleCalled ==
    \/ DoSchedule
    \/ DoTick /\ tick(Sched).sched
    \/ DoYield /\ yield(Sched).sched
    \/ \E id \in IdArgs : DoBlockTask(id) /\ blockTask(Sched, id).sched
    \/ \E id \in IdArgs : DoTerminateTask(id) /\ terminateTask(Sched, id).sched

\* C1: on a scheduler that keeps the discipline it was constructed with,
\* every Ready task has its id exactly once in exactly one ready structure
\* (the FIFO under round-robin, the FIFO of its priority under priority),
\* and no ready structure holds the id of a task that is not Ready.
C1_ReadyExactlyOnce ==
    /\ \A id \in ReadyIds(Sched) :
         /\ Count(ReadyStructure(Sched, id), id) = 1
         /\ QueuedCount(Sched, id) = 1
    /\ QueuedIds(Sched) \subseteq ReadyIds(Sched)

\* C1 witness: under priority, one task was blocked and unblocked behind a
\* task of its own priority (so it sits second in that FIFO) after ticks.
C1_Witness ==
    /\ type_ = "Priority"
    /\ tickCount_ > 0
    /\ \E p \in DOMAIN priorityQueues_ : priorityQueues_[p] = <<2, 1>>
    /\ ReadyIds(Sched) = {1, 2}

\* C2: under priority, whenever schedule() has run no Ready task has a
\* strictly higher priority than the Running task.
NoReadyAboveRunning(s) ==
    \A r \in DOMAIN s.tasks : \A t \in DOMAIN s.tasks :
        (s.tasks[r].state = "Running" /\ s.tasks[t].state = "Ready")
            => s.tasks[t].priority <= s.tasks[r].priority

C2_NoDemotionForLowerPriority ==
    [][(type_ = "Priority" /\ ScheduleCalled) => NoReadyAboveRunning(Sched')]_vars

\* C6: setSchedulerType preserves ready membership: every task that is Ready
\* before the call is afterwards enqueued in the ready structure of the new
\* discipline.
C6_SwitchPreservesReady ==
    [][\A type \in SchedulerType :
          DoSetSchedulerType(type) =>
              \A id \in ReadyIds(Sched) : InSeq(ReadyStructure(Sched', id), id)]_vars

PicksFirstOfHighestReady(s, ready, c) ==
    IF ready = {} THEN c = INVALID_TASK_ID
    ELSE LET hp == MaxOf({s.tasks[id].priority : id \in ready})
             q  == QueueAt(s, hp)
         IN /\ c \in ready
            /\ s.tasks[c].priority = hp
            /\ InSeq(q, c)
            /\ \A o \in ready : (s.tasks[o].priority = hp /\ InSeq(q, o))
                                    => Find(q, c) <= Find(q, o)

C8_PriorityPick ==
    [][/\ (type_ = "Priority" /\ currentTaskId_ = INVALID_TASK_ID /\ DoSchedule)
            => PicksFirstOfHighestReady(Sched, ReadyIds(Sched), currentTaskId_')
       /\ \A id \in IdArgs :
            (type_ = "Priority" /\ getCurrentTask(Sched) /\ id = currentTaskId_
                /\ DoTerminateTask(id))
            => PicksFirstOfHighestReady(Sched, ReadyIds(Sched) \ {id}, currentTaskId_')]_vars

\* C9: blockTask(id) returns true and moves the task to Blocked, out of its
\* ready structure, exactly when the task exists and is Running or Ready;
\* unblockTask(id) returns true exactly when the task exists and is Blocked,
\* making it Ready and appending it to the tail of its ready structure; a
\* call that returns false changes no scheduler state.
C9_BlockUnblock ==
    [][\A id \in IdArgs :
        /\ DoBlockTask(id) =>
             LET ok == HasTask(Sched, id) /\ tasks_[id].state \in {"Running", "Ready"} IN
             /\ blockTask(Sched, id).ret = ok
             /\ ok => /\ tasks_'[id].state = "Blocked"
                      /\ ~InSeq(ReadyStructure(Sched', id), id)
             /\ ~ok => UNCHANGED SchedState
        /\ DoUnblockTask(id) =>
             LET ok == HasTask(Sched, id) /\ tasks_[id].state = "Blocked" IN
             /\ unblockTask(Sched, id).ret = ok
             /\ ok => /\ tasks_'[id].state = "Ready"
                      /\ ReadyStructure(Sched', id) # <<>>
                      /\ ReadyStructure(Sched', id)[Len(ReadyStructure(Sched', id))] = id
             /\ ~ok => UNCHANGED SchedState]_vars

\* C10: every tick() adds one to the tick counter; when a current task
\* exists it takes one off that task's remaining time-slice and adds one to
\* its cpu-time; schedule() is called when the remaining time-slice reaches
\* zero or when there is no current task.
C10_TickAccounting ==
    [][DoTick =>
        /\ tickCount_' = tickCount_ + 1
        /\ getCurrentTask(Sched) =>
             LET c == currentTaskId_ IN
             /\ tasks_'[c].timeSliceRemaining = tasks_[c].timeSliceRemaining - 1
             /\ tasks_'[c].cpuTimeMs = tasks_[c].cpuTimeMs + 1
             /\ tick(Sched).sched = (tasks_'[c].timeSliceRemaining = 0)
        /\ ~getCurrentTask(Sched) => tick(Sched).sched]_vars

\* C11: Terminated is absorbing. A task that is Terminated stays Terminated,
\* is held by no ready structure and is not the current task after any
\* operation; terminateTask(id) returns true exactly when the task exists and
\* then leaves it so; on an id createTask never returned it returns false and
\* changes nothing.
C11_TerminatedAbsorbing ==
    [][/\ \A id \in DOMAIN tasks_ :
            tasks_[id].state = "Terminated" =>
                /\ tasks_'[id].state = "Terminated"
                /\ id \notin QueuedIds(Sched')
                /\ currentTaskId_' # id
       /\ \A id \in IdArgs :
            DoTerminateTask(id) =>
                /\ terminateTask(Sched, id).ret = HasTask(Sched, id)
                /\ HasTask(Sched, id) =>
                     /\ tasks_'[id].state = "Terminated"
                     /\ id \notin QueuedIds(Sched')
                     /\ currentTaskId_' # id
                /\ ~HasTask(Sched, id) => UNCHANGED SchedState]_vars

\* C27: the ids handed out so far are 1, 2, ..., nextTaskId_ - 1, each still
\* in tasks_, and createTask returns nextTaskId_: an id above all of them,
\* never INVALID_TASK_ID, with exactly one TCB added, in state Ready with a
\* time-slice of TIME_QUANTUM_MS, queued once in the ready structure of the
\* discipline, and every other TCB and the current task left as they were.
C27_CreateTaskFreshId ==
    /\ DOMAIN tasks_ = 1..(nextTaskId_ - 1)
    /\ \A priority \in TaskPriority :
         LET r == createTask(Sched, priority) IN
         /\ r.ret = nextTaskId_
         /\ r.ret # INVALID_TASK_ID
         /\ r.ret >= 1
         /\ \A id \in DOMAIN tasks_ : id < r.ret
         /\ DOMAIN r.s.tasks = DOMAIN tasks_ \cup {r.ret}
         /\ \A id \in DOMAIN tasks_ : r.s.tasks[id] = tasks_[id]
         /\ r.s.tasks[r.ret].state = "Ready"
         /\ r.s.tasks[r.ret].timeSliceRemaining = TIME_QUANTUM_MS
         /\ r.s.tasks[r.ret].priority = priority
         /\ Count(ReadyStructure(r.s, r.ret), r.ret) = 1
         /\ r.s.cur = currentTaskId_
         /\ r.s.nextTaskId = nextTaskId_ + 1

\* Two tasks were created, the first has terminated and the second, created
\* after that, got the next id and is Ready with a full time-slice.
C27_Witness ==
    /\ nextTaskId_ = 3
    /\ tasks_[1].state = "Terminated"
    /\ tasks_[2].state = "Ready"
    /\ tasks_[2].timeSliceRemaining = TIME_QUANTUM_MS
    /\ tickCount_ = 0
    /\ currentTaskId_ = INVALID_TASK_ID

\* C28: under round-robin, once only tick() is called, every task that is
\* Ready is eventually Running.
C28_ReadyEventuallyRuns ==
    \A id \in 1..MaxTasks :
        (tickCount_ >= 1 /\ id \in DOMAIN tasks_ /\ tasks_[id].state = "Ready")
            ~> (id \in DOMAIN tasks_ /\ tasks_[id].state = "Running")

\* C29: after every public operation the current task is none or a task in
\* state Running.
C29_CurrentIsRunning ==
    getCurrentTask(Sched) => tasks_[currentTaskId_].state = "Running"

\* The scheduler after k calls of tick() in a row.
RECURSIVE TickN(_, _)
TickN(s, k) == IF k = 0 THEN s ELSE TickN(tick(s).s, k - 1)

\* The current task is Running with its full time-slice, as schedule() leaves
\* it, and another task is queued.
JustScheduled ==
    /\ getCurrentTask(Sched)
    /\ tasks_[currentTaskId_].state = "Running"
    /\ tasks_[currentTaskId_].timeSliceRemaining = TIME_QUANTUM_MS
    /\ readyQueue_ # <<>>

\* C30: under round-robin, a task schedule() made Running while another task
\* is Ready stays Running, with the queue untouched, through the next
\* TIME_QUANTUM_MS - 1 calls of tick(); the TIME_QUANTUM_MS-th puts it back
\* to Ready at the tail of the queue and makes the former head Running with
\* a time-slice of TIME_QUANTUM_MS. Every tick() step that finds a Running
\* current task with a positive time-slice and a queued task behaves so.
C30_QuantumPreemption ==
    /\ [](JustScheduled =>
            LET c == currentTaskId_
                e == TickN(Sched, TIME_QUANTUM_MS)
            IN
            /\ \A k \in 1..(TIME_QUANTUM_MS - 1) :
                 LET m == TickN(Sched, k) IN
                 /\ m.cur = c
                 /\ m.tasks[c].state = "Running"
                 /\ m.tasks[c].timeSliceRemaining = TIME_QUANTUM_MS - k
                 /\ m.rq = readyQueue_
            /\ e.cur = Head(readyQueue_)
            /\ e.cur # c
            /\ e.tasks[e.cur].state = "Running"
            /\ e.tasks[e.cur].timeSliceRemaining = TIME_QUANTUM_MS
            /\ e.tasks[c].state = "Ready"
            /\ e.rq = Append(Tail(readyQueue_), c))
    /\ [][(/\ DoTickForever
           /\ getCurrentTask(Sched)
           /\ tasks_[currentTaskId_].state = "Running"
           /\ tasks_[currentTaskId_].timeSliceRemaining > 0
           /\ readyQueue_ # <<>>) =>
             IF tasks_[currentTaskId_].timeSliceRemaining > 1
             THEN /\ currentTaskId_' = currentTaskId_
                  /\ tasks_'[currentTaskId_].state = "Running"
                  /\ readyQueue_' = readyQueue_
             ELSE /\ currentTaskId_' = Head(readyQueue_)
                  /\ tasks_'[currentTaskId_'].state = "Running"
                  /\ tasks_'[currentTaskId_'].timeSliceRemaining = TIME_QUANTUM_MS
                  /\ tasks_'[currentTaskId_].state = "Ready"
                  /\ readyQueue_' = Append(Tail(readyQueue_), currentTaskId_)]_vars

\* Task 1 ran while tick() was called, used up its time-slice and is back at
\* the tail of the queue in state Ready; task 2, the former head, is Running
\* with a full time-slice.
C30_Witness ==
    /\ tickCount_ >= 1
    /\ nextTaskId_ = 3
    /\ currentTaskId_ = 2
    /\ tasks_[2].state = "Running"
    /\ tasks_[2].timeSliceRemaining = TIME_QUANTUM_MS
    /\ tasks_[1].state = "Ready"
    /\ tasks_[1].timeSliceRemaining = 0
    /\ tasks_[1].cpuTimeMs >= 1
    /\ readyQueue_ = <<1>>

\* C37: under either discipline and after any sequence of scheduler
\* operations, a task in state Running is the current task; hence at most
\* one task is Running.
C37_SingleRunning ==
    /\ \A id \in DOMAIN tasks_ : tasks_[id].state = "Running" => id = currentTaskId_
    /\ Cardinality({id \in DOMAIN tasks_ : tasks_[id].state = "Running"}) <= 1

\* C37 witness: the task that was created first and ran first has been
\* switched out and is Ready again, and a task created later is Running and
\* current.
C37_Witness ==
    /\ currentTaskId_ \in DOMAIN tasks_
    /\ currentTaskId_ > 1
    /\ tasks_[currentTaskId_].state = "Running"
    /\ 1 \in DOMAIN tasks_
    /\ tasks_[1].state = "Ready"
    /\ tasks_[1].cpuTimeMs > 0

(***************************************************************************)
(* Memory-manager properties.                                              *)
(***************************************************************************)
\* The present page-table entries, as <<task, page>> pairs, that name frame f.
PresentEntriesOf(m, f) ==
    {tp \in MemTaskIds \X PageNumbers :
        /\ tp[1] \in DOMAIN m.pt
        /\ tp[2] \in DOMAIN m.pt[tp[1]]
        /\ m.pt[tp[1]][tp[2]].present
        /\ m.pt[tp[1]][tp[2]].frameNumber = f}

\* C3: frame bit i is set iff exactly one page-table entry across all page
\* tables has frameNumber = i and present = true; a clear bit has none.
C3_FrameMapMatchesPageTables ==
    \A f \in Frames :
        /\ frameAllocationMap_[f] => Cardinality(PresentEntriesOf(Mem, f)) = 1
        /\ ~frameAllocationMap_[f] => PresentEntriesOf(Mem, f) = {}

\* C3 witness: both tasks hold pages, a frame below an allocated one has been
\* freed again, a page fault was served and a translation was made.
C3_Witness ==
    /\ DOMAIN pageTables_ = MemTaskIds
    /\ \A t \in MemTaskIds : DOMAIN pageTables_[t] # {}
    /\ ~frameAllocationMap_[0]
    /\ frameAllocationMap_[1]
    /\ pageFaultCount_ > 0
    /\ \E t \in MemTaskIds : \E p \in DOMAIN pageTables_[t] : pageTables_[t][p].accessed

\* Page p of task t is mapped: the task has a page table with a present entry for p.
IsPresent(m, t, p) ==
    /\ t \in DOMAIN m.pt
    /\ p \in DOMAIN m.pt[t]
    /\ m.pt[t][p].present

\* The pages of all tasks that are present, as <<task, page>> pairs.
PresentPages(m) == {tp \in MemTaskIds \X PageNumbers : IsPresent(m, tp[1], tp[2])}

\* frameAllocationMap_.all()
AllFramesAllocated(m) == \A f \in Frames : m.frames[f]

\* C16: at most TOTAL_PHYSICAL_FRAMES pages are present at once over all
\* tasks; when every frame is allocated, allocatePage and handlePageFault
\* fail for every task and page and leave the frame map and all page tables
\* as they were; after one freePage, allocatePage of any page that is not
\* present, in any existing address space, succeeds again.
C16_FrameExhaustion ==
    /\ Cardinality(PresentPages(Mem)) <= TOTAL_PHYSICAL_FRAMES
    /\ AllFramesAllocated(Mem) =>
         /\ \A t \in MemTaskIds, p \in PageNumbers :
              /\ \A prot \in Protections :
                   LET a == allocatePage(Mem, t, p, prot) IN
                   /\ ~a.ok
                   /\ a.m.frames = frameAllocationMap_
                   /\ a.m.pt = pageTables_
              /\ LET h == handlePageFault(Mem, t, p) IN
                 /\ ~h.ret
                 /\ h.m.frames = frameAllocationMap_
                 /\ h.m.pt = pageTables_
         /\ \A tp \in PresentPages(Mem) :
              LET f == freePage(Mem, tp[1], tp[2]) IN
              /\ f.ret
              /\ \A t \in DOMAIN f.m.pt, p \in PageNumbers, prot \in Protections :
                   ~IsPresent(f.m, t, p) =>
                       LET a == allocatePage(f.m, t, p, prot) IN
                       /\ a.ok
                       /\ IsPresent(a.m, t, p)
                       /\ AllFramesAllocated(a.m)

\* C16 witness: every frame is allocated, and the lowest frame is mapped by a
\* page that was allocated after the page holding the highest frame: the pool
\* was exhausted, a page was freed and a further allocatePage succeeded.
C16_Witness ==
    /\ AllFramesAllocated(Mem)
    /\ DOMAIN pageTables_ = MemTaskIds
    /\ IsPresent(Mem, 2, 0) /\ pageTables_[2][0].frameNumber = TOTAL_PHYSICAL_FRAMES - 1
    /\ IsPresent(Mem, 2, 5) /\ pageTables_[2][5].frameNumber = 0
    /\ totalAllocatedPages_ = TOTAL_PHYSICAL_FRAMES
    /\ pageFaultCount_ = 0

\* The pages of task t that are present.
PresentPagesOf(m, t) == {p \in PageNumbers : IsPresent(m, t, p)}

\* C17: destroyAddressSpace(t) on an existing address space returns true,
\* raises getFreeFrameCount by exactly the number of pages t had present,
\* releases each of their frames, removes t's page table so that
\* translateAddress(t, p) is None for every p, and leaves the page tables and
\* the frames of every other task as they were.
C17_DestroyReleasesFrames ==
    \A t \in DOMAIN pageTables_ :
        LET d == destroyAddressSpace(Mem, t) IN
        /\ d.ret
        /\ getFreeFrameCount(d.m) =
               getFreeFrameCount(Mem) + Cardinality(PresentPagesOf(Mem, t))
        /\ \A p \in PresentPagesOf(Mem, t) : ~d.m.frames[pageTables_[t][p].frameNumber]
        /\ DOMAIN d.m.pt = DOMAIN pageTables_ \ {t}
        /\ \A p \in PageNumbers : ~translateAddress(d.m, t, p).ok
        /\ \A u \in DOMAIN pageTables_ \ {t} :
             /\ d.m.pt[u] = pageTables_[u]
             /\ \A p \in PresentPagesOf(Mem, u) :
                  /\ d.m.frames[pageTables_[u][p].frameNumber]
                  /\ translateAddress(d.m, u, p).ok
                  /\ translateAddress(d.m, u, p).frame = pageTables_[u][p].frameNumber

\* C17 witness: task 1 had two pages on frames 0 and 1 and task 2 one page on
\* frame 2; destroyAddressSpace(1) has released frames 0 and 1 and removed the
\* page table of task 1, and task 2 still maps frame 2.
C17_Witness ==
    /\ DOMAIN pageTables_ = {2}
    /\ PresentPagesOf(Mem, 2) = {0}
    /\ pageTables_[2][0].frameNumber = 2
    /\ frameAllocationMap_ = [f \in Frames |-> f = 2]
    /\ totalAllocatedPages_ = 3

\* C18: after allocatePage(t, p) succeeds, translateAddress(t, p) returns
\* the frame whose simulated address allocatePage returned; a present page
\* keeps its frame, and translateAddress keeps returning it, through every
\* operation other than freePage(t, p) and destroyAddressSpace(t);
\* translateAddress of a page that is not mapped returns None.
C18_TranslateStable ==
    /\ [](\A t \in MemTaskIds, p \in PageNumbers :
            /\ \A prot \in Protections :
                 LET a == allocatePage(Mem, t, p, prot) IN
                 a.ok => /\ translateAddress(a.m, t, p).ok
                         /\ translateAddress(a.m, t, p).frame * PAGE_SIZE = a.addr
                         /\ ~frameAllocationMap_[translateAddress(a.m, t, p).frame]
            /\ translateAddress(Mem, t, p).ok = IsPresent(Mem, t, p)
            /\ IsPresent(Mem, t, p) =>
                 translateAddress(Mem, t, p).frame = pageTables_[t][p].frameNumber)
    /\ [][pageTables_' # pageTables_ =>
            \A t \in DOMAIN pageTables_ : \A p \in DOMAIN pageTables_[t] :
               (/\ pageTables_[t][p].present
                /\ \/ t \notin DOMAIN pageTables_'
                   \/ p \notin DOMAIN pageTables_'[t]
                   \/ ~pageTables_'[t][p].present
                   \/ pageTables_'[t][p].frameNumber # pageTables_[t][p].frameNumber)
                  => (DoFreePage(t, p) \/ DoDestroyAddressSpace(t))]_vars

\* C18 witness: page 5 of task 1 was allocated on frame 1 and translated; since
\* then frame 0 was freed and given to task 2, and the counters show that
\* further allocations and a page fault were served; it still maps frame 1.
C18_Witness ==
    /\ IsPresent(Mem, 1, 5)
    /\ pageTables_[1][5].frameNumber = 1
    /\ pageTables_[1][5].accessed
    /\ ~IsPresent(Mem, 1, 0)
    /\ \E p \in PageNumbers : IsPresent(Mem, 2, p) /\ pageTables_[2][p].frameNumber = 0
    /\ pageFaultCount_ > 0

\* C19: allocatePage(t, p) followed by freePage(t, p) is a round trip:
\* getFreeFrameCount is one lower in between and back at its prior value
\* afterwards, translateAddress(t, p) is None afterwards, and page p of task
\* t can be allocated again.
C19_AllocFreeRoundTrip ==
    \A t \in MemTaskIds, p \in PageNumbers, prot \in Protections :
        LET a == allocatePage(Mem, t, p, prot) IN
        a.ok =>
            LET f == freePage(a.m, t, p) IN
            /\ getFreeFrameCount(a.m) = getFreeFrameCount(Mem) - 1
            /\ f.ret
            /\ getFreeFrameCount(f.m) = getFreeFrameCount(Mem)
            /\ f.m.frames = frameAllocationMap_
            /\ ~translateAddress(f.m, t, p).ok
            /\ \A prot2 \in Protections :
                 /\ allocatePage(f.m, t, p, prot2).ok
                 /\ allocatePage(f.m, t, p, prot2).addr = a.addr

\* C19 witness: frame 0 is free below the allocated frame 1, and the counter
\* of allocated pages equals the one page present, so no address space with
\* pages was destroyed: the page that held frame 0 was allocated and then
\* freed by freePage, and a page allocated after it is still mapped.
C19_Witness ==
    /\ frameAllocationMap_ = [f \in Frames |-> f = 1]
    /\ Cardinality(PresentPages(Mem)) = 1
    /\ totalAllocatedPages_ = 1
    /\ pageFaultCount_ = 0

\* The call returned failure and left the frame map and every page table
\* as they are in the current state.
FailsUnchanged(ok, m) ==
    /\ ~ok
    /\ m.frames = frameAllocationMap_
    /\ m.pt = pageTables_

\* C20: every failing memory-manager call reports failure and changes neither
\* the frame map nor any page table: createAddressSpace on an existing task,
\* destroyAddressSpace on an unknown task, allocatePage on an unknown task or
\* on a page already present, freePage on an unknown task or on a page that
\* is not present.
C20_FailuresChangeNothing ==
    \A t \in MemTaskIds :
        /\ t \in DOMAIN pageTables_ =>
             FailsUnchanged(createAddressSpace(Mem, t).ret, createAddressSpace(Mem, t).m)
        /\ t \notin DOMAIN pageTables_ =>
             FailsUnchanged(destroyAddressSpace(Mem, t).ret, destroyAddressSpace(Mem, t).m)
        /\ \A p \in PageNumbers :
             /\ (t \notin DOMAIN pageTables_ \/ IsPresent(Mem, t, p)) =>
                  \A prot \in Protections :
                      FailsUnchanged(allocatePage(Mem, t, p, prot).ok,
                                     allocatePage(Mem, t, p, prot).m)
             /\ (t \notin DOMAIN pageTables_ \/ ~IsPresent(Mem, t, p)) =>
                  FailsUnchanged(freePage(Mem, t, p).ret, freePage(Mem, t, p).m)

\* C20 witness: a state in which each kind of failing call can be made: task
\* 1 has an address space with page 0 present (on a frame above a freed one)
\* and page 5 not present, task 2 has no address space, and the counter of
\* allocated pages shows that an address space was destroyed with its pages.
C20_Witness ==
    /\ DOMAIN pageTables_ = {1}
    /\ PresentPagesOf(Mem, 1) = {0}
    /\ pageTables_[1][0].frameNumber > 0
    /\ totalAllocatedPages_ > 1

\* C40: the total-allocated-pages counter shown by getMemoryReport equals
\* getUsedFrameCount(), the number of present page-table entries, after any
\* sequence of memory-manager calls.
C40_AllocatedPagesCounter ==
    totalAllocatedPages_ = getUsedFrameCount(Mem)

(***************************************************************************)
(* IPC properties.                                                         *)
(***************************************************************************)
\* C5: for every registered mailbox, the messages handed out by the receive
\* calls, followed by the messages still queued, are exactly the messages
\* sent to the mailbox, in the order of the send calls: nothing lost,
\* duplicated or reordered.
C5_MailboxFifo ==
    \A t \in DOMAIN messageQueues_ : sentLog[t] = recvLog[t] \o messageQueues_[t]

\* C5 witness: a mailbox has handed out two messages of different senders and
\* types through receiveMessage while a third one is still queued.
C5_Witness ==
    \E t \in DOMAIN messageQueues_ :
        /\ Len(recvLog[t]) = 2
        /\ recvLog[t][1].senderId # recvLog[t][2].senderId
        /\ recvLog[t][1].type # recvLog[t][2].type
        /\ totalMessagesReceived_ = 2
        /\ Len(messageQueues_[t]) = 1

\* Mailbox q holds a message of type Response sent by task from.
HoldsResponseFrom(q, from) ==
    \E k \in 1..Len(q) : q[k].type = "Response" /\ q[k].senderId = from

\* Sequence q holds the message with this id.
HoldsId(q, id) == \E k \in 1..Len(q) : q[k].id = id

\* C12: sendAndWaitReply(sender, receiver) returns the Response whenever a
\* Response sent by receiver is in sender's mailbox before the deadline,
\* whatever else the mailbox holds: an iteration of its loop that finds such
\* a mailbox returns a Response of receiver or at least takes a message off
\* the mailbox, so that the Response is reached after finitely many
\* iterations; the call returns None at once only when receiver has no mailbox.
C12_ReplyFound ==
    [][/\ (DoWaitReplyPoll /\ waitCall.sender \in DOMAIN messageQueues_
             /\ HoldsResponseFrom(messageQueues_[waitCall.sender], waitCall.receiver))
          => \/ /\ waitCall'.pc = "done"
                /\ waitCall'.ret # None
                /\ waitCall'.ret.type = "Response"
                /\ waitCall'.ret.senderId = waitCall.receiver
             \/ Len(messageQueues_'[waitCall.sender]) < Len(messageQueues_[waitCall.sender])
       /\ \A s \in IpcTaskIds, r \in IpcTaskIds :
             (DoSendAndWaitReply(s, r) /\ waitCall'.pc = "done")
                => r \notin DOMAIN messageQueues_ /\ waitCall'.ret = None]_vars

\* C13: when sendAndWaitReply(sender, receiver) times out it returns None and
\* its Request is still in receiver's mailbox, behind exactly the messages
\* sent to receiver before it that no receive call has returned, unless the
\* mailbox was unregistered or a receive call on receiver returned the Request.
C13_RequestNotRetracted ==
    [][DoWaitReplyTimeout =>
         LET r  == waitCall.receiver
             id == waitCall.msgId
         IN /\ waitCall'.ret = None
            /\ (r \in DOMAIN messageQueues_ /\ HoldsId(sentLog[r], id)
                  /\ ~HoldsId(recvLog[r], id))
               => /\ HoldsId(messageQueues_'[r], id)
                  /\ sentLog'[r] = recvLog'[r] \o messageQueues_'[r]]_vars

\* The mailbox of r exists, is not empty and its head was sent by s.
HeadIsFrom(r, s) ==
    /\ r \in DOMAIN messageQueues_
    /\ messageQueues_[r] # <<>>
    /\ Head(messageQueues_[r]).senderId = s

\* C14: receiveMessageFrom(receiver, sender), called with no other call in
\* between, returns and removes the head of receiver's mailbox exactly when
\* the mailbox exists, is not empty and the head's senderId is sender; in
\* every other case it returns None and leaves every mailbox as it was.
\* The first conjunct is about the value a call returns in any reachable
\* state, the second about what the call does to the mailboxes.
C14_ReceiveFromHeadOnly ==
    /\ [](\A r \in IpcTaskIds, s \in IpcTaskIds :
            LET res == receiveMessageFrom(Ipc, r, s) IN
            /\ res.ok = HeadIsFrom(r, s)
            /\ res.msg = IF HeadIsFrom(r, s) THEN Head(messageQueues_[r]) ELSE None)
    /\ [][\A r \in IpcTaskIds, s \in IpcTaskIds :
            DoReceiveMessageFrom(r, s) =>
              IF HeadIsFrom(r, s)
              THEN /\ recvLog'[r] = Append(recvLog[r], Head(messageQueues_[r]))
                   /\ messageQueues_' = [messageQueues_ EXCEPT ![r] = Tail(@)]
              ELSE /\ recvLog' = recvLog
                   /\ messageQueues_' = messageQueues_]_vars

\* C14 witness: receiveMessageFrom has returned the head of a mailbox (no
\* receiveMessage call was made, so the received counter is still 0) and the
\* mailbox now has a head of another sender, which a call for the first
\* sender leaves where it is.
C14_Witness ==
    \E t \in DOMAIN messageQueues_ :
        /\ totalMessagesReceived_ = 0
        /\ Len(recvLog[t]) = 1
        /\ Len(messageQueues_[t]) = 2
        /\ Head(messageQueues_[t]).senderId # recvLog[t][1].senderId
        /\ ~receiveMessageFrom(Ipc, t, recvLog[t][1].senderId).ok

\* The ids of the messages of a mailbox, in mailbox order.
IdsOf(q) == [k \in 1..Len(q) |-> q[k].id]

StrictlyIncreasing(ids) == \A k \in 1..(Len(ids) - 1) : ids[k] < ids[k + 1]

\* sendMessage/sendAsync as the claim describes them: the value res that a
\* call with this receiver returns in the current state.
SendReturnsNextId(res, receiver) ==
    IF receiver \in DOMAIN messageQueues_
    THEN /\ res.ret = nextMessageId_
         /\ res.ret >= 1
         /\ res.msg.id = res.ret
    ELSE /\ res.ret = 0
         /\ res.i = Ipc

\* ... and what a call with this receiver that returned res does.
SendAssignsNextId(res, receiver) ==
    IF receiver \in DOMAIN messageQueues_
    THEN /\ nextMessageId_' = nextMessageId_ + 1
         /\ totalMessagesSent_' = totalMessagesSent_ + 1
         /\ messageQueues_' = [messageQueues_ EXCEPT ![receiver] = Append(@, res.msg)]
    ELSE /\ messageQueues_' = messageQueues_
         /\ nextMessageId_' = nextMessageId_
         /\ totalMessagesSent_' = totalMessagesSent_

\* C15: the ids returned by successful sendMessage/sendAsync calls are 1, 2,
\* 3, ... in the order the messages are enqueued (each send runs under the
\* manager's mutex, so concurrent sends are serialized), every mailbox holds
\* its messages in increasing id order, and a send to an unregistered
\* receiver returns 0, enqueues nothing and leaves the sent counter alone.
C15_IdsIncrease ==
    /\ [](/\ \A s \in IpcTaskIds, r \in IpcTaskIds, type \in MsgTypes :
               /\ SendReturnsNextId(sendMessage(Ipc, s, r, type, FALSE), r)
               /\ SendReturnsNextId(sendAsync(Ipc, s, r, type), r)
          /\ nextMessageId_ = totalMessagesSent_ + 1
          /\ \A t \in DOMAIN messageQueues_ :
               /\ StrictlyIncreasing(IdsOf(messageQueues_[t]))
               /\ \A k \in 1..Len(messageQueues_[t]) :
                    messageQueues_[t][k].id \in 1..(nextMessageId_ - 1))
    /\ [][\A s \in IpcTaskIds, r \in IpcTaskIds, type \in MsgTypes :
            /\ DoSendMessage(s, r, type) =>
                 SendAssignsNextId(sendMessage(Ipc, s, r, type, FALSE), r)
            /\ DoSendAsync(s, r, type) =>
                 SendAssignsNextId(sendAsync(Ipc, s, r, type), r)]_vars

\* C15 witness: three sends of two senders to two mailboxes were interleaved:
\* one mailbox holds ids 1 and 3 of different senders, the other one id 2.
C15_Witness ==
    /\ DOMAIN messageQueues_ = IpcTaskIds
    /\ \E t \in IpcTaskIds, u \in IpcTaskIds :
         /\ Len(messageQueues_[t]) = 2
         /\ IdsOf(messageQueues_[t]) = <<1, 3>>
         /\ messageQueues_[t][1].senderId # messageQueues_[t][2].senderId
         /\ IdsOf(messageQueues_[u]) = <<2>>
    /\ nextMessageId_ = 4

\* C24: registerTask(id) returns true and adds an empty mailbox exactly when
\* id has none, and otherwise returns false and changes nothing;
\* unregisterTask(id) returns true exactly when id has a mailbox and removes
\* it with its pending messages, leaving the other mailboxes alone: right
\* after it sends to id return 0, receives on id return None, and
\* registerTask(id) succeeds with an empty mailbox.
C24_RegisterUnregister ==
    \A id \in IpcTaskIds :
        LET r == registerTask(Ipc, id)
            u == unregisterTask(Ipc, id)
        IN
        /\ r.ret = (id \notin DOMAIN messageQueues_)
        /\ r.ret =>
             /\ DOMAIN r.i.mq = DOMAIN messageQueues_ \cup {id}
             /\ r.i.mq[id] = <<>>
             /\ \A o \in DOMAIN messageQueues_ : r.i.mq[o] = messageQueues_[o]
        /\ ~r.ret => r.i = Ipc
        /\ u.ret = (id \in DOMAIN messageQueues_)
        /\ ~u.ret => u.i = Ipc
        /\ u.ret =>
             /\ DOMAIN u.i.mq = DOMAIN messageQueues_ \ {id}
             /\ \A o \in DOMAIN u.i.mq : u.i.mq[o] = messageQueues_[o]
             /\ \A s \in IpcTaskIds, ty \in MsgTypes :
                    LET sm == sendMessage(u.i, s, id, ty, FALSE) IN
                    sm.ret = 0 /\ sm.i = u.i
             /\ ~receiveMessage(u.i, id).ok
             /\ receiveMessage(u.i, id).msg = None
             /\ \A s \in IpcTaskIds :
                    /\ ~receiveMessageFrom(u.i, id, s).ok
                    /\ receiveMessageFrom(u.i, id, s).msg = None
             /\ LET rr == registerTask(u.i, id) IN
                    /\ rr.ret
                    /\ rr.i.mq[id] = <<>>
                    /\ ~receiveMessage(rr.i, id).ok

\* A mailbox holds pending messages of a task that has no mailbox (any more),
\* and messages sent earlier are gone from the mailboxes: unregisterTask on
\* the holder discards them, registerTask on it is refused.
C24_Witness ==
    \E t \in DOMAIN messageQueues_, u \in IpcTaskIds \ DOMAIN messageQueues_ :
        /\ Len(messageQueues_[t]) >= 1
        /\ Head(messageQueues_[t]).senderId = u
        /\ totalMessagesSent_ > Len(messageQueues_[t])
        /\ unregisterTask(Ipc, t).ret
        /\ ~registerTask(Ipc, t).ret

\* C31: sendAndWaitReply(sender, receiver) takes off sender's mailbox at most
\* the one Response it returns: an iteration of its loop either leaves every
\* mailbox as it was, or removes the head of sender's mailbox, and then that
\* head is a Response and the call returns it; the return at the deadline
\* removes nothing. The messages behind the head keep their places.
C31_WaitRemovesOnlyReply ==
    [][/\ DoWaitReplyPoll =>
            \/ messageQueues_' = messageQueues_
            \/ /\ waitCall.sender \in DOMAIN messageQueues_
               /\ messageQueues_[waitCall.sender] # <<>>
               /\ messageQueues_' =
                      [messageQueues_ EXCEPT ![waitCall.sender] = Tail(@)]
               /\ Head(messageQueues_[waitCall.sender]).type = "Response"
               /\ waitCall'.pc = "done"
               /\ waitCall'.ret = Head(messageQueues_[waitCall.sender])
       /\ DoWaitReplyTimeout => messageQueues_' = messageQueues_]_vars

\* C32: receiveMessageFrom(receiver, sender) never returns a message whose
\* senderId differs from sender, also while receive calls of other threads
\* on the same mailbox and sends to it run between its steps.
C32_ReceiveFromSenderOnly ==
    (rxCall.op = "receiveMessageFrom" /\ rxCall.pc = "done" /\ rxCall.ret # None)
        => rxCall.ret.senderId = rxCall.sender

\* C33: a receive call acquires the manager's mutex before it acquires the
\* mailbox mutex, so that the mailbox it resolved is never one that a
\* concurrent unregisterTask has destroyed, and the call never crashes or
\* hangs on it.
C33_MailboxLocking ==
    /\ rxCall.acquired # <<>> => Head(rxCall.acquired) = "manager"
    /\ rxCall.it # "dangling"
    /\ ~rxCall.fault

(***************************************************************************)
(* Interrupt-controller properties.                                        *)
(***************************************************************************)
\* Interrupts are enabled globally, n has a handler and its entry is enabled.
Deliverable(n) ==
    /\ interruptsEnabled_
    /\ n \in DOMAIN handlers_
    /\ handlers_[n].enabled

\* C25: triggerInterrupt(n) invokes the handler of n exactly once and adds
\* one to the total and to the entry's trigger count, changing nothing else
\* in the controller, when interrupts are enabled globally, n has a handler
\* and its entry is enabled; in every other case it invokes nothing and
\* changes nothing, and the scheduler's tick count advances only in a
\* delivered Timer interrupt.
C25_TriggerDelivery ==
    /\ [](\A n \in IrqNumbers :
            LET r == triggerInterrupt(Irq, n)
                s == RunHandlers(Sched, r.invoked)
            IN
            IF Deliverable(n)
            THEN /\ r.invoked = <<handlers_[n].handler>>
                 /\ r.q = [Irq EXCEPT !.total = totalInterrupts_ + 1,
                                      !.handlers[n].triggerCount =
                                          handlers_[n].triggerCount + 1]
                 /\ n = IRQ_TIMER => s.tickCount = tickCount_ + 1
                 /\ n # IRQ_TIMER => s = Sched
            ELSE /\ r.invoked = <<>>
                 /\ r.q = Irq
                 /\ s = Sched)
    /\ [][/\ \A n \in IrqNumbers :
               handlerCalls'[n] # handlerCalls[n] =>
                   /\ Deliverable(n)
                   /\ handlerCalls'[n] = handlerCalls[n] + 1
                   /\ totalInterrupts_' = totalInterrupts_ + 1
                   /\ handlers_'[n].triggerCount = handlers_[n].triggerCount + 1
          /\ totalInterrupts_' # totalInterrupts_ =>
                 \E n \in IrqNumbers : handlerCalls'[n] # handlerCalls[n]
          /\ tickCount_' # tickCount_ =>
                 /\ Deliverable(IRQ_TIMER)
                 /\ handlerCalls'[IRQ_TIMER] = handlerCalls[IRQ_TIMER] + 1
                 /\ tickCount_' = tickCount_ + 1]_vars

\* The timer handler has run and advanced the tick, the keyboard handler has
\* run, and now interrupts are disabled globally while the keyboard entry is
\* masked: every further trigger is dropped.
C25_Witness ==
    /\ handlerCalls[IRQ_TIMER] = 1
    /\ handlerCalls[IRQ_KEYBOARD] = 1
    /\ tickCount_ = 1
    /\ ~interruptsEnabled_
    /\ IRQ_KEYBOARD \in DOMAIN handlers_
    /\ ~handlers_[IRQ_KEYBOARD].enabled
    /\ IRQ_TIMER \in DOMAIN handlers_
    /\ tasks_ # <<>>

(***************************************************************************)
(* File-system properties.                                                 *)
(***************************************************************************)
\* C26: read on an open descriptor whose mode has the Write flag and not the
\* Read flag returns -1 and changes nothing, and write on an open descriptor
\* whose mode has the Read flag and not the Write flag returns -1 and
\* changes nothing.
C26_DescriptorMisuseRejected ==
    \A fd \in DOMAIN fdTable_, count \in Counts :
        LET mode == fdTable_[fd].mode IN
        /\ BitAnd(mode, MODE_WRITE) # 0 /\ BitAnd(mode, MODE_READ) = 0 =>
               /\ read(Fs, fd, count).ret = -1
               /\ read(Fs, fd, count).f = Fs
        /\ BitAnd(mode, MODE_READ) # 0 /\ BitAnd(mode, MODE_WRITE) = 0 =>
               /\ write(Fs, fd, count, 1).ret = -1
               /\ write(Fs, fd, count, 1).f = Fs

\* C38: read(fd, buf, count) on an open descriptor that has the Read bit and
\* whose file exists returns min(count, max(0, size - position)) bytes, all
\* taken from the file's data, and advances the position by that amount; at a
\* position beyond the end of the file it returns 0 and reads nothing.
C38_ReadAmount ==
    \A fd \in DOMAIN fdTable_, count \in Counts :
        LET e == fdTable_[fd] IN
        (e.isOpen /\ BitAnd(e.mode, MODE_READ) # 0 /\ e.inodeNumber \in DOMAIN inodes_) =>
            LET size == inodes_[e.inodeNumber].size
                expected == MinOf({count, MaxOf({0, size - e.position})})
                r == read(Fs, fd, count)
            IN /\ r.ret = expected
               /\ r.f.fds[fd].position = e.position + expected
               /\ Len(r.bytes) = expected
               /\ ~r.oob

(***************************************************************************)
(* Kernel properties.                                                      *)
(***************************************************************************)
\* C39: once boot() has succeeded, the id the scheduler gave the idle task
\* has a mailbox and an address space, so that the system calls made for that
\* task find them.
C39_IdleTaskRegistered ==
    state_ = "Running" =>
        /\ idleTask \in DOMAIN tasks_
        /\ idleTask \in DOMAIN messageQueues_
        /\ idleTask \in DOMAIN pageTables_

(***************************************************************************)
(* Heap properties.                                                        *)
(***************************************************************************)
\* The headers reached from freeList_ through next, in order; the walk stops
\* at a pointer that is no header of the arena, recorded as -1, and after
\* more blocks than the arena has words (a cycle), recorded as -2.
RECURSIVE BlocksFrom(_, _, _)
BlocksFrom(h, p, fuel) ==
    IF p = NULL THEN <<>>
    ELSE IF ~IsHeader(p) THEN <<-1>>
    ELSE IF fuel = 0 THEN <<-2>>
    ELSE <<p>> \o BlocksFrom(h, BlockNext(h, p), fuel - 1)

BlockList(h) == BlocksFrom(h, h.freeList, Cardinality(WordAddrs))

RECURSIVE SumBlocks(_, _)
SumBlocks(h, L) ==
    IF L = <<>> THEN 0 ELSE HeaderSize + BlockSize(h, Head(L)) + SumBlocks(h, Tail(L))

\* C4: after any sequence of allocate, free and reallocate calls with pointers
\* that allocate/reallocate returned before, the block list is traversable
\* from head to tail, next/prev links agree, list-adjacent blocks are
\* physically adjacent, header + payload sizes add up to the arena size and
\* no two consecutive blocks are both free.
C4_HeapListIntact ==
    /\ ~heapFault
    /\ LET L == BlockList(Heap) IN
       /\ L # <<>>
       /\ \A i \in 1..Len(L) : L[i] > 0
       /\ (\A i \in 1..Len(L) : L[i] > 0) =>
            /\ BlockPrev(Heap, L[1]) = NULL
            /\ \A i \in 1..(Len(L) - 1) :
                 /\ BlockPrev(Heap, L[i + 1]) = L[i]
                 /\ L[i + 1] = L[i] + HeaderSize + BlockSize(Heap, L[i])
                 /\ ~(BlockIsFree(Heap, L[i]) /\ BlockIsFree(Heap, L[i + 1]))
            /\ SumBlocks(Heap, L) = HeapSize

\* The block list of h is traversable from freeList_ with agreeing links,
\* physically adjacent blocks and sizes that add up to the arena.
ListIntact(h) ==
    /\ ~h.fault
    /\ LET L == BlockList(h) IN
       /\ L # <<>>
       /\ \A i \in 1..Len(L) : L[i] > 0
       /\ (\A i \in 1..Len(L) : L[i] > 0) =>
            /\ BlockPrev(h, L[1]) = NULL
            /\ \A i \in 1..(Len(L) - 1) :
                 /\ BlockPrev(h, L[i + 1]) = L[i]
                 /\ L[i + 1] = L[i] + HeaderSize + BlockSize(h, L[i])
            /\ SumBlocks(h, L) = HeapSize

\* The payload pointers of the blocks of the list that are marked occupied.
OccupiedPtrs(h) ==
    LET L == BlockList(h) IN
    {L[i] + HeaderSize : i \in {j \in 1..Len(L) : L[j] > 0 /\ ~BlockIsFree(h, L[j])}}

\* C21: on an intact heap, reallocate(nullptr, n) is allocate(n);
\* reallocate(ptr, 0) frees ptr and returns null; for an occupied block whose
\* payload size is at least newSize it returns ptr and changes nothing;
\* otherwise it returns either null with the heap unchanged, or the payload of
\* a different occupied block that holds at least newSize bytes, with the old
\* block no longer occupied.
C21_ReallocateCases ==
    ListIntact(Heap) =>
      \A newSize \in AllocSizes :
        /\ reallocate(Heap, NULL, newSize) = allocate(Heap, newSize)
        /\ \A ptr \in OccupiedPtrs(Heap) :
             LET r == reallocate(Heap, ptr, newSize)
                 block == ptr - HeaderSize
             IN
             IF newSize = 0
             THEN r.ret = NULL /\ ptr \notin OccupiedPtrs(r.h)
             ELSE IF BlockSize(Heap, block) >= newSize
             THEN r.ret = ptr /\ r.h = Heap
             ELSE IF r.ret = NULL
             THEN r.h = Heap
             ELSE /\ r.ret # ptr
                  /\ r.ret \in OccupiedPtrs(r.h)
                  /\ BlockSize(r.h, r.ret - HeaderSize) >= newSize
                  /\ ptr \notin OccupiedPtrs(r.h)

\* The pointers a caller still owns: returned by allocate or reallocate and
\* not freed since, i.e. the payloads of the occupied blocks.
LivePtrs == returned \cap OccupiedPtrs(Heap)

\* The allocator used as documented: free and reallocate are only given
\* nullptr or a pointer the caller still owns.
HeapLiveNext ==
    \/ \E size \in AllocSizes : DoAllocate(size)
    \/ \E ptr \in LivePtrs \cup {NULL} : DoFree(ptr)
    \/ \E ptr \in LivePtrs \cup {NULL}, newSize \in AllocSizes : DoReallocate(ptr, newSize)

SpecHeapLive == KernelInit /\ [][HeapLiveNext]_vars

\* The sum of the payload sizes of the occupied blocks among L.
RECURSIVE SumOccupied(_, _)
SumOccupied(h, L) ==
    IF L = <<>> THEN 0
    ELSE (IF Head(L) > 0 /\ ~BlockIsFree(h, Head(L)) THEN BlockSize(h, Head(L)) ELSE 0)
         + SumOccupied(h, Tail(L))

\* The heap as the constructor leaves it: one free block spanning the arena.
SingleFreeBlock(h) ==
    /\ BlockList(h) = <<HeapBase>>
    /\ BlockIsFree(h, HeapBase)
    /\ BlockSize(h, HeapBase) = HeapSize - HeaderSize

\* C22: getUsedMemory() equals the sum of the payload sizes of the occupied
\* blocks after every call, and when no returned pointer is still owned it is
\* 0 and the heap is one free block spanning the arena.
C22_UsedMemoryAccounting ==
    /\ ~heapFault
    /\ getUsedMemory(Heap) = SumOccupied(Heap, BlockList(Heap))
    /\ LivePtrs = {} => getUsedMemory(Heap) = 0 /\ SingleFreeBlock(Heap)

\* The pointers handed out earlier whose memory now lies in the payload of a
\* free block of the list: freeing one of them again is a double free.
FreedPtrs(h) ==
    LET L == BlockList(h) IN
    {p \in returned :
        \E i \in 1..Len(L) :
            /\ L[i] > 0
            /\ BlockIsFree(h, L[i])
            /\ L[i] + HeaderSize <= p
            /\ p <= L[i] + HeaderSize + BlockSize(h, L[i])}

\* C23: on an intact heap allocate(0) returns null and changes nothing,
\* free(nullptr) changes nothing, and free of a pointer whose block is
\* currently free changes no block, no link and not the used-memory
\* accounting.
C23_MisuseChangesNothing ==
    ListIntact(Heap) =>
      /\ allocate(Heap, 0) = [h |-> Heap, ret |-> NULL]
      /\ free(Heap, NULL) = Heap
      /\ \A ptr \in FreedPtrs(Heap) \ OccupiedPtrs(Heap) : free(Heap, ptr) = Heap

\* C34: allocate splits the chosen free block exactly when its size exceeds
\* the adjusted request by at least sizeof(BlockHeader) + 8, the case of
\* equality included. When it splits, the allocated block has the adjusted
\* size and a free block of size (old size - adjusted size - header size)
\* follows it in the list and in memory; when it does not, the whole block is
\* handed out. Stated for requests whose rounding does not wrap.
C34_SplitThreshold ==
    ListIntact(Heap) =>
      \A size \in {s \in AllocSizes : s > 0 /\ RoundUp8(s) >= s} :
        LET adj == RoundUp8(size)
            block == findFreeBlock(Heap, adj).block
            old == BlockSize(Heap, block)
            r == allocate(Heap, size)
            tail == block + HeaderSize + adj
        IN
        block # NULL =>
          /\ r.ret = block + HeaderSize
          /\ ~BlockIsFree(r.h, block)
          /\ IF old - adj >= HeaderSize + 8
             THEN /\ BlockSize(r.h, block) = adj
                  /\ BlockNext(r.h, block) = tail
                  /\ BlockIsFree(r.h, tail)
                  /\ BlockSize(r.h, tail) = old - adj - HeaderSize
                  /\ BlockPrev(r.h, tail) = block
                  /\ BlockNext(r.h, tail) = BlockNext(Heap, block)
             ELSE /\ BlockSize(r.h, block) = old
                  /\ BlockNext(r.h, block) = BlockNext(Heap, block)

\* The smallest multiple of 8 that is not below size, as a number.
NextMultipleOf8(size) == ((size + 7) \div 8) * 8

\* The blocks of the list of h, in list order, that are free and hold at
\* least need bytes.
FittingBlocks(h, need) ==
    LET L == BlockList(h) IN
    SelectSeq(L, LAMBDA b : b > 0 /\ BlockIsFree(h, b) /\ BlockSize(h, b) >= need)

\* C35: on an intact heap allocate(size) with size > 0 returns the payload of
\* the first block in list order that is free and holds at least size rounded
\* up to a multiple of 8, and it returns null exactly when no free block is
\* that large, leaving the blocks and the accounting as they were.
C35_FirstFit ==
    ListIntact(Heap) =>
      \A size \in AllocSizes \ {0} :
        LET fit == FittingBlocks(Heap, NextMultipleOf8(size))
            r == allocate(Heap, size)
        IN
        IF fit = <<>>
        THEN r.ret = NULL /\ r.h = Heap
        ELSE /\ r.ret = Head(fit) + HeaderSize
             /\ ~BlockIsFree(r.h, Head(fit))

\* C36: for every request size of the unsigned size type, a non-null pointer
\* returned by allocate(size) is the payload of a block of at least size
\* bytes, and a request larger than the arena returns null.
C36_AllocateHoldsRequest ==
    ListIntact(Heap) =>
      \A size \in AllocSizes :
        LET r == allocate(Heap, size) IN
        /\ r.ret # NULL => BlockSize(r.h, r.ret - HeaderSize) >= size
        /\ size > HeapSize => r.ret = NULL

====
